---- MODULE Spec2Model ----
(***************************************************************************)
(* Verification model of the Jarvis voice assistant pipeline:              *)
(*   - WakeWordDetector.listen_for_wake_word (wake phrase with cooldown),  *)
(*   - CommandHandler.process_command (routing by keys and aliases),       *)
(*   - ChatBot.respond_async (response cache behind an asyncio lock),      *)
(*   - Recorder.record (open retries, frame loop, save, stream cleanup),   *)
(*   - run_assistant (the loop that polls, captures, transcribes, routes). *)
(* Texts are sequences of one-character strings, so that Python's          *)
(* substring test, lower(), strip() and split(sep, 1) are modelled by what *)
(* they do on characters.                                                  *)
(***************************************************************************)
EXTENDS Integers, Sequences, FiniteSets, TLC

VARIABLES
    \* WakeWordDetector
    wake_clock,            \* time.time(), in ticks
    last_detection_time,   \* self.last_detection_time
    frame_counter,         \* self.frame_counter
    wake_frame,            \* what the stream and the decoder gave the last call
    wake_result,           \* what the last listen_for_wake_word call returned
    wake_reopened,         \* whether the last call went through _setup_audio_stream
    true_times,            \* history: the clock at every True return
    \* Transcriber and CommandHandler
    heard,                 \* the results list of transcribe_audio
    transcription,         \* the text handed to process_command
    command_result,        \* what the last process_command call returned
    spoken,                \* the tts.speak calls of the last process_command
    executed,              \* the handler execute calls of the last process_command
    chat_queries,          \* the respond_async calls of the last process_command
    selected,              \* what _get_command returned in the last process_command
    \* ChatBot
    response_cache,        \* self.response_cache, in insertion order
    locked,                \* self._lock is held
    lock_waiters,          \* the coroutines queued on self._lock
    callers,               \* per coroutine: its position in respond_async
    calls,                 \* number of respond_async calls started
    births,                \* history: per text, the store that inserted its key
    stores,                \* history: number of stores into the cache
    \* Recorder
    rec_pc,                \* position inside Recorder.record
    record_seconds,        \* self.record_seconds
    open_attempts,         \* self.audio.open calls made by _setup_stream
    stream,                \* the local "stream" of record and the state of the stream
    reads,                 \* stream.read calls made by the frame loop
    frames,                \* self.frames; a frame is named by the read that gave it
    failed_reads,          \* history: the reads of the frame loop that raised
    saved,                 \* audio/recording.wav as _save_audio wrote it
    records,               \* history: record calls
    max_level,             \* the local max_level of record against min_audio_level
    rec_result,            \* what record returned, or that it raised
    stop_calls,            \* stream.stop_stream calls
    close_calls,           \* stream.close calls
    \* run_assistant
    loop_pc,               \* position of the loop
    loop_exit,             \* how the loop was left
    polls,                 \* history: listen_for_wake_word calls
    captures,              \* history: "with recorder as r: r.record()" blocks
    dispatches,            \* history: process_command calls
    caught,                \* history: exceptions caught by the loop's except clause
    recorder_terminates,   \* recorder.audio.terminate calls (Recorder.__exit__)
    wake_cleanups,         \* wake_detector.cleanup calls
    wake_closes,           \* audio_stream.close calls made by cleanup
    wake_terminates,       \* pa.terminate calls made by cleanup
    \* _get_command over a registry
    alias_registry,        \* self.command_aliases of the handler looked at
    alias_text,            \* the command_text handed to _get_command
    alias_found,           \* what _get_command returned
    alias_route,           \* what process_command did with it
    \* Recorder.__init__ inside main
    devices,               \* the devices of the platform, by index
    default_device,        \* the index get_default_input_device_info gives
    dev_pc,                \* position inside the device selection
    scan_index,            \* i of the for loop of _find_working_device
    probes,                \* history: _test_device calls, per device
    input_device_index,    \* what the selection returned
    startup,               \* how main went on after Recorder(config)
    \* EnhancedErrorHandler
    error_log,             \* self.error_log; an entry is named by the call that made it
    errors_logged,         \* history: log_error calls
    \* ReminderSystem
    reminders,             \* self.reminders: text -> time, in minutes
    timers,                \* self.timers: label -> end time
    rem_clock,             \* datetime.now(), in minutes
    checker,               \* the checker thread: position, and the locals now and completed
    announced,             \* history: how often each text or label was printed
    removed_early          \* history: entries deleted before their time

wake_vars == <<wake_clock, last_detection_time, frame_counter, wake_frame,
               wake_result, wake_reopened, true_times>>
router_vars == <<heard, transcription, command_result, spoken, executed,
                 chat_queries, selected>>
chat_vars == <<response_cache, locked, lock_waiters, callers, calls, births, stores>>
rec_vars == <<rec_pc, record_seconds, open_attempts, stream, reads, frames, rec_result,
              stop_calls, close_calls, failed_reads, saved, records, max_level>>
loop_vars == <<loop_pc, loop_exit, polls, captures, dispatches, caught,
               recorder_terminates, wake_cleanups, wake_closes, wake_terminates>>
alias_vars == <<alias_registry, alias_text, alias_found, alias_route>>
dev_vars == <<devices, default_device, dev_pc, scan_index, probes, input_device_index,
              startup>>
log_vars == <<error_log, errors_logged>>
rem_vars == <<reminders, timers, rem_clock, checker, announced, removed_early>>
vars == <<wake_vars, router_vars, chat_vars, rec_vars, loop_vars, alias_vars, dev_vars,
          log_vars, rem_vars>>

(***************************************************************************)
(* Python string operations on character sequences                         *)
(***************************************************************************)

SetMin(S) == CHOOSE x \in S : \A y \in S : x <= y
SetMax(S) == CHOOSE x \in S : \A y \in S : x >= y

\* str.lower() on one character
LowerMap ==
    ("A" :> "a") @@ ("B" :> "b") @@ ("C" :> "c") @@ ("D" :> "d") @@
    ("E" :> "e") @@ ("F" :> "f") @@ ("G" :> "g") @@ ("H" :> "h") @@
    ("I" :> "i") @@ ("J" :> "j") @@ ("K" :> "k") @@ ("L" :> "l") @@
    ("M" :> "m") @@ ("N" :> "n") @@ ("O" :> "o") @@ ("P" :> "p") @@
    ("Q" :> "q") @@ ("R" :> "r") @@ ("S" :> "s") @@ ("T" :> "t") @@
    ("U" :> "u") @@ ("V" :> "v") @@ ("W" :> "w") @@ ("X" :> "x") @@
    ("Y" :> "y") @@ ("Z" :> "z")
LowerChar(c) == IF c \in DOMAIN LowerMap THEN LowerMap[c] ELSE c

\* str.lower()
Lower(s) == [i \in 1..Len(s) |-> LowerChar(s[i])]

\* the start positions of sub in s
Occurrences(sub, s) ==
    {i \in 1..(Len(s) - Len(sub) + 1) : \A j \in 1..Len(sub) : s[i + j - 1] = sub[j]}

\* "sub in s"
Contains(sub, s) ==
    \E i \in 1..(Len(s) - Len(sub) + 1) : \A j \in 1..Len(sub) : s[i + j - 1] = sub[j]

\* str.strip()
Strip(s) ==
    LET keep == {i \in 1..Len(s) : s[i] \notin {" ", "\t", "\n"}}
    IN IF keep = {} THEN <<>> ELSE SubSeq(s, SetMin(keep), SetMax(keep))

\* s.split(sep, 1)[1]: the text after the first occurrence of sep
\* (only used where sep occurs; without an occurrence Python raises IndexError)
AfterFirst(sep, s) == SubSeq(s, SetMin(Occurrences(sep, s)) + Len(sep), Len(s))

(***************************************************************************)
(* WakeWordDetector                                                        *)
(***************************************************************************)

\* resolution of the model's clock
TicksPerSecond == 2
\* how long the clock runs after construction, in ticks
MaxElapsed == 6
\* how many frames are read
MaxFrames == 4

wake_word == <<"j","a","r","v","i","s">>
detection_cooldown == 1 * TicksPerSecond
\* time.time() is the Unix time: at construction it is far beyond the cooldown
ClockAtStart == detection_cooldown + 1

\* finalized or partial texts of the decoder
WakeTexts ==
    { <<>>,
      <<"j","a","r","v","i","s">>,
      <<"J","a","r","v","i","s">>,
      <<"h","e","y"," ","j","a","r","v","i","s">>,
      <<"h","e","l","l","o">> }

\* One call's inputs: the stream read (ok, an error, an error whose text holds
\* "Stream closed"), AcceptWaveform (finalized, not finalized, raising), the
\* JSON of Result() (with a "text", without one, unparsable) and the text.
Frame(rd, dec, res, txt) == [read |-> rd, decode |-> dec, result |-> res, text |-> txt]
WakeFrames ==
    {Frame("error", "partial", "text", <<>>), Frame("closed", "partial", "text", <<>>),
     Frame("ok", "raise", "text", <<>>), Frame("ok", "final", "invalid", <<>>),
     Frame("ok", "final", "missing", <<>>)}
    \cup {Frame("ok", "partial", "text", t) : t \in WakeTexts}
    \cup {Frame("ok", "final", "text", t) : t \in WakeTexts}
NoFrame == Frame("none", "partial", "text", <<>>)

\* result.get("text", "").lower()
DecodedText(fr) == IF fr.result = "text" THEN Lower(fr.text) ELSE <<>>

CooldownElapsed_AtLeast(cur, last) == cur - last >= detection_cooldown
\* current_time - self.last_detection_time > self.detection_cooldown
CooldownElapsed(cur, last) == cur - last > detection_cooldown

Triggered_Either(text, cur, last) == Contains(wake_word, text) \/ CooldownElapsed(cur, last)
\* self.wake_word in text and <cooldown elapsed>
Triggered(text, cur, last) == Contains(wake_word, text) /\ CooldownElapsed(cur, last)

\* an exception inside the try block of listen_for_wake_word
PollRaises(fr) ==
    \/ fr.read # "ok"
    \/ fr.decode = "raise"
    \/ fr.decode = "final" /\ fr.result = "invalid"

\* the path to "return True"
Detected(fr, cur, last) ==
    /\ ~PollRaises(fr)
    /\ fr.decode = "final"
    /\ DecodedText(fr) # <<>>
    /\ Triggered(DecodedText(fr), cur, last)

poll_result_ReopenEscapes(fr, cur, last, reopen_ok) ==
    IF PollRaises(fr) /\ fr.read # "closed" /\ ~reopen_ok THEN "raise"
    ELSE IF Detected(fr, cur, last) THEN "true" ELSE "false"
\* what listen_for_wake_word gives its caller: the except clause (lines
\* 131-138) returns False, and an exception of _setup_audio_stream inside it
\* is passed over (lines 134-137)
poll_result(fr, cur, last, reopen_ok) ==
    IF Detected(fr, cur, last) THEN "true" ELSE "false"

\* time passes between and during calls
Tick ==
    /\ wake_clock < ClockAtStart + MaxElapsed
    /\ wake_clock' = wake_clock + 1
    /\ UNCHANGED <<last_detection_time, frame_counter, wake_frame, wake_result,
                   wake_reopened, true_times>>
    /\ UNCHANGED <<router_vars, chat_vars, rec_vars, loop_vars>>
    /\ UNCHANGED <<alias_vars, dev_vars, log_vars, rem_vars>>

next_detection_time_OnAnyTrigger(fr, cur, last) ==
    IF ~PollRaises(fr) /\ fr.decode = "final" /\ Contains(wake_word, DecodedText(fr))
    THEN cur ELSE last
\* self.last_detection_time after a call: set only on the path to "return
\* True" (line 125)
next_detection_time(fr, cur, last) == IF Detected(fr, cur, last) THEN cur ELSE last

reopen_attempted_Always(fr) == PollRaises(fr)
\* the except clause calls _setup_audio_stream, once, unless the text of the
\* exception holds "Stream closed" (line 133)
reopen_attempted(fr) == PollRaises(fr) /\ fr.read # "closed"

\* what one call of listen_for_wake_word does to the detector, with the frame
\* fr and the outcome reopen_ok of _setup_audio_stream (when it is called)
wake_poll(fr, reopen_ok) ==
    /\ wake_frame' = fr
    /\ frame_counter' = IF fr.read = "ok" THEN frame_counter + 1 ELSE frame_counter
    /\ last_detection_time' = next_detection_time(fr, wake_clock, last_detection_time)
    /\ true_times' = IF Detected(fr, wake_clock, last_detection_time)
                     THEN Append(true_times, wake_clock)
                     ELSE true_times
    /\ wake_result' = poll_result(fr, wake_clock, last_detection_time, reopen_ok)
    /\ wake_reopened' =
           IF reopen_attempted(fr)
           THEN (IF reopen_ok THEN "reopened" ELSE "reopen failed")
           ELSE "no"

\* one call of listen_for_wake_word
listen_for_wake_word ==
    /\ frame_counter < MaxFrames
    /\ \E fr \in WakeFrames, reopen_ok \in BOOLEAN : wake_poll(fr, reopen_ok)
    /\ UNCHANGED wake_clock
    /\ UNCHANGED <<router_vars, chat_vars, rec_vars, loop_vars>>
    /\ UNCHANGED <<alias_vars, dev_vars, log_vars, rem_vars>>

NextWake == Tick \/ listen_for_wake_word

(***************************************************************************)
(* CommandHandler: registry, _get_command and the handlers' execute        *)
(***************************************************************************)

\* a string handed to tts.speak or returned by respond_async: a literal of the
\* source, followed by the interpolated or generated text
Say(m, a) == [msg |-> m, arg |-> a]

\* self.commands, in insertion order; handler is the class of the value.
\* "take screenshot" holds the value of the call handle_take_screenshot_command(),
\* a function without a return statement: None.
commands ==
    <<
       [key |-> <<"o","p","e","n">>,
        handler |-> "OpenCommand"],   \* "open"
       [key |-> <<"p","l","a","y">>,
        handler |-> "PlayCommand"],   \* "play"
       [key |-> <<"g","e","n","e","r","a","t","e"," ","i","m","a","g","e">>,
        handler |-> "GenerateImageCommand"],   \* "generate image"
       [key |-> <<"t","a","k","e"," ","s","c","r","e","e","n","s","h","o","t">>,
        handler |-> "None"],   \* "take screenshot"
       [key |-> <<"s","t","a","r","t"," ","r","e","c","o","r","d","i","n","g">>,
        handler |-> "StartRecordingCommand"],   \* "start recording"
       [key |-> <<"s","t","o","p"," ","r","e","c","o","r","d","i","n","g">>,
        handler |-> "StopRecordingCommand"],   \* "stop recording"
       [key |-> <<"s","e","a","r","c","h"," ","f","o","r">>,
        handler |-> "SearchCommand"],   \* "search for"
       [key |-> <<"w","e","a","t","h","e","r">>,
        handler |-> "WeatherSystem"],   \* "weather"
       [key |-> <<"f","o","r","e","c","a","s","t">>,
        handler |-> "WeatherSystem"],   \* "forecast"
       [key |-> <<"r","e","m","i","n","d">>,
        handler |-> "ReminderSystem"],   \* "remind"
       [key |-> <<"l","i","s","t"," ","r","e","m","i","n","d","e","r","s">>,
        handler |-> "ReminderSystem"],   \* "list reminders"
       [key |-> <<"t","i","m","e","r">>,
        handler |-> "ReminderSystem"],   \* "timer"
       [key |-> <<"l","i","s","t"," ","t","i","m","e","r","s">>,
        handler |-> "ReminderSystem"],   \* "list timers"
       [key |-> <<"c","a","l","e","n","d","a","r">>,
        handler |-> "CalendarCommand"],   \* "calendar"
       [key |-> <<"s","c","h","e","d","u","l","e">>,
        handler |-> "CalendarCommand"],   \* "schedule"
       [key |-> <<"e","v","e","n","t">>,
        handler |-> "CalendarCommand"],   \* "event"
       [key |-> <<"n","o","t","e">>,
        handler |-> "NoteCommand"],   \* "note"
       [key |-> <<"v","o","i","c","e"," ","m","e","m","o">>,
        handler |-> "VoiceMemoCommand"]   \* "voice memo"
    >>
command_aliases ==
    <<
       [alias |-> <<"l","a","u","n","c","h">>,
        target |-> <<"o","p","e","n">>],   \* "launch": "open"
       [alias |-> <<"r","u","n">>,
        target |-> <<"o","p","e","n">>],   \* "run": "open"
       [alias |-> <<"s","t","a","r","t">>,
        target |-> <<"p","l","a","y">>],   \* "start": "play"
       [alias |-> <<"c","r","e","a","t","e"," ","i","m","a","g","e">>,
        target |-> <<"g","e","n","e","r","a","t","e"," ","i","m","a","g","e">>],   \* "create image": "generate image"
       [alias |-> <<"m","a","k","e"," ","i","m","a","g","e">>,
        target |-> <<"g","e","n","e","r","a","t","e"," ","i","m","a","g","e">>],   \* "make image": "generate image"
       [alias |-> <<"c","a","p","t","u","r","e"," ","s","c","r","e","e","n">>,
        target |-> <<"t","a","k","e"," ","s","c","r","e","e","n","s","h","o","t">>],   \* "capture screen": "take screenshot"
       [alias |-> <<"r","e","c","o","r","d"," ","s","c","r","e","e","n">>,
        target |-> <<"s","t","a","r","t"," ","r","e","c","o","r","d","i","n","g">>],   \* "record screen": "start recording"
       [alias |-> <<"e","n","d"," ","r","e","c","o","r","d","i","n","g">>,
        target |-> <<"s","t","o","p"," ","r","e","c","o","r","d","i","n","g">>],   \* "end recording": "stop recording"
       [alias |-> <<"l","o","o","k"," ","u","p">>,
        target |-> <<"s","e","a","r","c","h"," ","f","o","r">>],   \* "look up": "search for"
       [alias |-> <<"f","i","n","d">>,
        target |-> <<"s","e","a","r","c","h"," ","f","o","r">>],   \* "find": "search for"
       [alias |-> <<"s","e","t"," ","a"," ","t","i","m","e","r">>,
        target |-> <<"t","i","m","e","r">>],   \* "set a timer": "timer"
       [alias |-> <<"s","e","t"," ","t","i","m","e","r">>,
        target |-> <<"t","i","m","e","r">>],   \* "set timer": "timer"
       [alias |-> <<"s","h","o","w"," ","r","e","m","i","n","d","e","r","s">>,
        target |-> <<"l","i","s","t"," ","r","e","m","i","n","d","e","r","s">>],   \* "show reminders": "list reminders"
       [alias |-> <<"s","h","o","w"," ","t","i","m","e","r","s">>,
        target |-> <<"l","i","s","t"," ","t","i","m","e","r","s">>],   \* "show timers": "list timers"
       [alias |-> <<"c","h","e","c","k"," ","w","e","a","t","h","e","r">>,
        target |-> <<"w","e","a","t","h","e","r">>],   \* "check weather": "weather"
       [alias |-> <<"w","e","a","t","h","e","r"," ","f","o","r","e","c","a","s","t">>,
        target |-> <<"f","o","r","e","c","a","s","t">>],   \* "weather forecast": "forecast"
       [alias |-> <<"a","d","d"," ","e","v","e","n","t">>,
        target |-> <<"e","v","e","n","t">>],   \* "add event": "event"
       [alias |-> <<"n","e","w"," ","e","v","e","n","t">>,
        target |-> <<"e","v","e","n","t">>],   \* "new event": "event"
       [alias |-> <<"s","h","o","w"," ","e","v","e","n","t","s">>,
        target |-> <<"c","a","l","e","n","d","a","r">>],   \* "show events": "calendar"
       [alias |-> <<"l","i","s","t"," ","e","v","e","n","t","s">>,
        target |-> <<"c","a","l","e","n","d","a","r">>],   \* "list events": "calendar"
       [alias |-> <<"d","e","l","e","t","e"," ","e","v","e","n","t">>,
        target |-> <<"e","v","e","n","t">>],   \* "delete event": "event"
       [alias |-> <<"r","e","m","o","v","e"," ","e","v","e","n","t">>,
        target |-> <<"e","v","e","n","t">>],   \* "remove event": "event"
       [alias |-> <<"t","a","k","e"," ","n","o","t","e">>,
        target |-> <<"n","o","t","e">>],   \* "take note": "note"
       [alias |-> <<"a","d","d"," ","n","o","t","e">>,
        target |-> <<"n","o","t","e">>],   \* "add note": "note"
       [alias |-> <<"l","i","s","t"," ","n","o","t","e","s">>,
        target |-> <<"n","o","t","e">>],   \* "list notes": "note"
       [alias |-> <<"s","h","o","w"," ","n","o","t","e","s">>,
        target |-> <<"n","o","t","e">>],   \* "show notes": "note"
       [alias |-> <<"s","e","a","r","c","h"," ","n","o","t","e","s">>,
        target |-> <<"n","o","t","e">>],   \* "search notes": "note"
       [alias |-> <<"s","t","a","r","t"," ","r","e","c","o","r","d","i","n","g"," ","m","e","m","o">>,
        target |-> <<"v","o","i","c","e"," ","m","e","m","o">>],   \* "start recording memo": "voice memo"
       [alias |-> <<"s","t","o","p"," ","r","e","c","o","r","d","i","n","g"," ","m","e","m","o">>,
        target |-> <<"v","o","i","c","e"," ","m","e","m","o">>],   \* "stop recording memo": "voice memo"
       [alias |-> <<"p","l","a","y"," ","m","e","m","o">>,
        target |-> <<"v","o","i","c","e"," ","m","e","m","o">>],   \* "play memo": "voice memo"
       [alias |-> <<"l","i","s","t"," ","m","e","m","o","s">>,
        target |-> <<"v","o","i","c","e"," ","m","e","m","o">>]   \* "list memos": "voice memo"
    >>
\* commands.get(cmd_key), and the None of "return None"
NoCommand == [key |-> <<>>, handler |-> "None"]
Lookup(cmd_key) ==
    LET hit == {i \in 1..Len(commands) : commands[i].key = cmd_key}
    IN IF hit = {} THEN NoCommand ELSE commands[SetMin(hit)]

DirectMatches(command_text) ==
    {i \in 1..Len(commands) : Contains(commands[i].key, command_text)}
AliasMatches(command_text) ==
    {i \in 1..Len(command_aliases) : Contains(command_aliases[i].alias, command_text)}

get_command_Leftmost(command_text) ==
    LET direct == DirectMatches(command_text)
        aliased == AliasMatches(command_text)
        at(i) == SetMin(Occurrences(commands[i].key, command_text))
    IN IF direct # {}
       THEN commands[CHOOSE i \in direct :
                        \A j \in direct : at(i) < at(j) \/ (at(i) = at(j) /\ i <= j)]
       ELSE IF aliased # {} THEN Lookup(command_aliases[SetMin(aliased)].target)
       ELSE NoCommand
get_command_AliasFirst(command_text) ==
    LET direct == DirectMatches(command_text)
        aliased == AliasMatches(command_text)
    IN IF aliased # {} THEN Lookup(command_aliases[SetMin(aliased)].target)
       ELSE IF direct # {} THEN commands[SetMin(direct)]
       ELSE NoCommand
get_command_in_SkipDead(cmds, aliases, command_text) ==
    LET direct == {i \in 1..Len(cmds) : Contains(cmds[i].key, command_text)}
        hit(k) == {i \in 1..Len(cmds) : cmds[i].key = k}
        live == {i \in 1..Len(aliases) : /\ Contains(aliases[i].alias, command_text)
                                          /\ hit(aliases[i].target) # {}}
    IN IF direct # {} THEN cmds[SetMin(direct)]
       ELSE IF live # {} THEN cmds[SetMin(hit(aliases[SetMin(live)].target))]
       ELSE NoCommand
\* _get_command over the dicts cmds and aliases: the value of the first
\* direct key in the text; else commands.get(cmd_key) of the first alias
\* in the text, which is None when cmd_key is no key; else None
get_command_in(cmds, aliases, command_text) ==
    LET direct == {i \in 1..Len(cmds) : Contains(cmds[i].key, command_text)}
        aliased == {i \in 1..Len(aliases) : Contains(aliases[i].alias, command_text)}
        hit(k) == {i \in 1..Len(cmds) : cmds[i].key = k}
    IN IF direct # {} THEN cmds[SetMin(direct)]
       ELSE IF aliased # {}
       THEN (IF hit(aliases[SetMin(aliased)].target) = {}
             THEN NoCommand
             ELSE cmds[SetMin(hit(aliases[SetMin(aliased)].target))])
       ELSE NoCommand

\* _get_command: the first direct key in the text, else the target of the
\* first alias in the text, else None
get_command(command_text) == get_command_in(commands, command_aliases, command_text)

\* what the collaborator behind a handler does: it works, it raises, or the
\* object the handler constructs first cannot be constructed
Externals == {"ok", "fail", "setup fail"}

\* an execute call's end: it returned "continue" or an exception left it
Returned(said) == [outcome |-> "continue", said |-> said]
Raised == [outcome |-> "raise", said |-> <<>>]

\* OpenCommand.execute and PlayCommand.execute: split on the keyword before the
\* try block (IndexError when the text lacks it); handle_open_command and
\* handle_play_command split their argument on the keyword again, which raises
\* inside the try block unless the name holds the keyword too; their own
\* tts.speak calls are not awaited and say nothing
KeywordCommand(word, ctx, ask, sorry) ==
    IF ~Contains(word, Lower(ctx)) THEN Raised
    ELSE LET name == Strip(AfterFirst(word, Lower(ctx)))
         IN IF name = <<>> THEN Returned(<<Say(ask, <<>>)>>)
            ELSE IF ~Contains(word, name) THEN Returned(<<Say(sorry, name)>>)
            ELSE Returned(<<>>)

\* GenerateImageCommand.execute
GenerateImage(ctx, ext) ==
    LET gi == <<"g","e","n","e","r","a","t","e"," ","i","m","a","g","e">>
        gio == <<"g","e","n","e","r","a","t","e"," ","i","m","a","g","e"," ","o","f">>
    IN IF ~Contains(gi, Lower(ctx)) THEN Raised
       ELSE LET prompt == Strip(AfterFirst(gi, Lower(ctx)))
            IN IF prompt = <<>>
               THEN Returned(<<Say("Please provide a description for the image.", <<>>)>>)
               ELSE IF ext = "ok" /\ ~Contains(gio, prompt)
               THEN Returned(<<Say("Sorry, I couldn't generate the image.", <<>>)>>)
               ELSE Returned(<<>>)

\* NoteCommand.execute: NoteManager() is constructed before the try block
NoteExecute(ctx, ext) ==
    LET command == Lower(ctx)
        has(w) == Contains(w, command)
    IN IF ext = "setup fail" THEN Raised
       ELSE IF ext = "fail"
       THEN Returned(<<Say("Sorry, I couldn't process that note command.", <<>>)>>)
       ELSE IF has(<<"t","a","k","e"," ","n","o","t","e">>) \/ has(<<"a","d","d"," ","n","o","t","e">>)
       THEN (IF Strip(AfterFirst(<<"n","o","t","e">>, command)) = <<>>
             THEN Returned(<<Say("What would you like to note down?", <<>>)>>)
             ELSE Returned(<<Say("(result of the note manager)", <<>>)>>))
       ELSE IF \/ has(<<"l","i","s","t"," ","n","o","t","e","s">>)
               \/ has(<<"s","h","o","w"," ","n","o","t","e","s">>)
               \/ has(<<"s","e","a","r","c","h"," ","n","o","t","e","s">>)
               \/ has(<<"e","x","p","o","r","t"," ","n","o","t","e","s">>)
       THEN Returned(<<Say("(result of the note manager)", <<>>)>>)
       ELSE Returned(<<>>)

\* VoiceMemoCommand.execute: everything is inside the try block; for the stop
\* branch "setup fail" stands for no recording in progress (nothing is said)
VoiceMemoExecute(ctx, ext) ==
    LET command == Lower(ctx)
        has(w) == Contains(w, command)
        sorry == Returned(<<Say("Sorry, I couldn't process that voice memo command.", <<>>)>>)
    IN IF has(<<"s","t","a","r","t"," ","v","o","i","c","e"," ","m","e","m","o">>)
       THEN (IF ext = "ok" THEN Returned(<<Say("Starting voice memo recording", <<>>)>>) ELSE sorry)
       ELSE IF has(<<"s","t","o","p"," ","v","o","i","c","e"," ","m","e","m","o">>)
       THEN (IF ext = "ok" THEN Returned(<<Say("Voice memo saved", <<>>)>>)
             ELSE IF ext = "fail" THEN sorry ELSE Returned(<<>>))
       ELSE IF has(<<"p","l","a","y"," ","v","o","i","c","e"," ","m","e","m","o">>)
       THEN (IF ext = "ok" THEN Returned(<<Say("Playing voice memo", <<>>)>>)
             ELSE IF ext = "fail" THEN sorry
             ELSE Returned(<<Say("No voice memos found", <<>>)>>))
       ELSE IF has(<<"l","i","s","t"," ","v","o","i","c","e"," ","m","e","m","o","s">>)
       THEN (IF ext = "ok" THEN Returned(<<Say("(number of voice memos)", <<>>)>>) ELSE sorry)
       ELSE Returned(<<>>)

\* whether the registered object has an execute method (WeatherSystem and
\* ReminderSystem define none)
HasExecute(handler) == handler \notin {"WeatherSystem", "ReminderSystem", "None"}

\* command.execute(context) for the registered classes that define it
execute(handler, ctx, ext) ==
    CASE handler = "OpenCommand" ->
           KeywordCommand(<<"o","p","e","n">>, ctx,
                          "Please specify the application to open.", "Sorry, I couldn't open ")
      [] handler = "PlayCommand" ->
           KeywordCommand(<<"p","l","a","y">>, ctx,
                          "Please specify the song to play.", "Sorry, I couldn't play ")
      [] handler = "GenerateImageCommand" -> GenerateImage(ctx, ext)
      \* ScreenRecorder.start_recording(context.tts) is called on the class: TypeError
      [] handler = "StartRecordingCommand" ->
           Returned(<<Say("Sorry, I couldn't start the recording.", <<>>)>>)
      [] handler = "StopRecordingCommand" ->
           Returned(<<Say("Sorry, I couldn't stop the recording.", <<>>)>>)
      \* SearchCommand(context.transcription): the class takes no argument: TypeError
      [] handler = "SearchCommand" ->
           Returned(<<Say("Sorry, I couldn't perform the search.", <<>>)>>)
      [] handler = "CalendarCommand" ->
           IF ext = "ok" THEN Returned(<<Say("(response of the event handler)", <<>>)>>)
           ELSE Returned(<<Say("Sorry, I couldn't process that calendar command.", <<>>)>>)
      [] handler = "NoteCommand" -> NoteExecute(ctx, ext)
      [] handler = "VoiceMemoCommand" -> VoiceMemoExecute(ctx, ext)
      \* no execute attribute: AttributeError in the caller
      [] OTHER -> Raised

(***************************************************************************)
(* ChatBot: the response cache                                             *)
(***************************************************************************)

\* the size the cache is cut back to; 1000 in the source (chatbot.py:63),
\* scaled down here: the code is the same for every limit
CacheLimit == 2

\* generated reply texts (response.text)
Replies == { <<"r","1">>, <<"r","2">> }
\* what generate_content and _extract_reply give: a reply, or an exception
Generations == {[ok |-> FALSE, reply |-> <<>>]} \cup {[ok |-> TRUE, reply |-> r] : r \in Replies}

\* the keys of self.response_cache
CacheKeys(cache) == {cache[i].text : i \in DOMAIN cache}
\* self.response_cache[input_text]
CacheGet(cache, text) == cache[CHOOSE i \in DOMAIN cache : cache[i].text = text].reply
\* self.response_cache[input_text] = reply_text: a key already present keeps
\* its place in the dict's order, a new key goes last
CachePut(cache, text, reply) ==
    IF text \in CacheKeys(cache)
    THEN [i \in DOMAIN cache |->
             IF cache[i].text = text THEN [text |-> text, reply |-> reply] ELSE cache[i]]
    ELSE Append(cache, [text |-> text, reply |-> reply])

CacheHit_Never(cache, text) == FALSE
\* input_text in self.response_cache
CacheHit(cache, text) == text \in CacheKeys(cache)

EvictNewest(cache) == SubSeq(cache, 1, Len(cache) - 1)
\* self.response_cache.pop(next(iter(self.response_cache)))
EvictOldest(cache) == Tail(cache)

StoreReply_Unlimited(cache, text, reply) == CachePut(cache, text, reply)
\* lines 59-64 of respond_async: store, then limit the size
StoreReply(cache, text, reply) ==
    LET put == CachePut(cache, text, reply)
    IN IF Len(put) > CacheLimit THEN EvictOldest(put) ELSE put

\* history kept beside the cache: the number of the store that inserted a key
BornAt(b, n, cache, text) == IF text \in CacheKeys(cache) THEN b ELSE (text :> n + 1) @@ b

NoInputReply == Say("I didn't receive any input to respond to.", <<>>)
\* the string of line 70 of respond_async
Apology == Say("I apologize, but I encountered an error processing your request.", <<>>)

\* ErrorHandler.handle_error(self, error, context): self.logger is used in its
\* try block and again in its except block, so with a self that has no logger
\* AttributeError leaves handle_error
handle_error(self) == IF self = "ErrorHandler" THEN "returned" ELSE "raised"
\* every call site calls it on the class, "ErrorHandler.handle_error(e, ...)":
\* self is bound to the exception and error to the context string
HandlerSelf == "Exception"

FailureStored(cache, text) == Append(cache, [text |-> text, reply |-> <<>>])
\* the except block of respond_async stores nothing
AfterFailure(cache, text) == cache

\* respond_async run to its end by a single caller (the lock is free): the
\* reply or the exception that leaves it, and the cache afterwards.  The
\* except block calls ErrorHandler.handle_error on the class, so that its
\* self is the exception: self.logger raises AttributeError inside
\* handle_error's try and again inside its except block, and that exception
\* leaves respond_async.
respond_alone(cache, text, gen) ==
    IF text = <<>>
    THEN [raised |-> FALSE, reply |-> NoInputReply, cache |-> cache, generated |-> FALSE]
    ELSE IF CacheHit(cache, text)
    THEN [raised |-> FALSE, reply |-> Say("", CacheGet(cache, text)), cache |-> cache,
          generated |-> FALSE]
    ELSE IF gen.ok
    THEN [raised |-> FALSE, reply |-> Say("", gen.reply),
          cache |-> StoreReply(cache, text, gen.reply), generated |-> TRUE]
    ELSE IF handle_error(HandlerSelf) = "raised"
    THEN [raised |-> TRUE, reply |-> Say("", <<>>), cache |-> AfterFailure(cache, text),
          generated |-> TRUE]
    ELSE [raised |-> FALSE, reply |-> Apology, cache |-> AfterFailure(cache, text),
          generated |-> TRUE]

(***************************************************************************)
(* CommandHandler.process_command                                          *)
(***************************************************************************)

\* how many recognized phrases make up one transcription
MaxPhrases == 3

\* the phrases the transcriber recognizes
Phrases ==
    { <<"J","a","r","v","i","s">>,
      <<"s","t","o","p"," ","l","i","s","t","e","n","i","n","g">>,
      <<"t","h","a","n","k","s">>,
      <<"o","p","e","n">>,
      <<"p","l","a","y">>,
      <<"l","a","u","n","c","h">>,
      <<"w","e","a","t","h","e","r">>,
      <<"n","o","t","e","p","a","d">>,
      <<"h","e","l","l","o">> }

\* " ".join(filter(None, results)) of transcribe_audio
RECURSIVE JoinResults(_)
JoinResults(results) ==
    IF results = <<>> THEN <<>>
    ELSE LET rest == JoinResults(Tail(results))
         IN IF Head(results) = <<>> THEN rest
            ELSE IF rest = <<>> THEN Head(results)
            ELSE Head(results) \o <<" ">> \o rest

\* what one process_command call did and returned
Outcome(res, said, exe, chat, sel, cache) ==
    [result |-> res, spoken |-> said, executed |-> exe, chat_queries |-> chat,
     selected |-> sel, cache |-> cache]

\* _handle_chatbot_query
handle_chatbot_query(query, gen, sel, cache) ==
    LET r == respond_alone(cache, query, gen)
    IN IF r.raised
       THEN Outcome("continue", <<Say("I encountered an error processing your request.", <<>>)>>,
                    <<>>, <<query>>, sel, r.cache)
       ELSE Outcome("continue", <<r.reply>>, <<>>, <<query>>, sel, r.cache)

Uncaught(o) == o
\* the except clause of process_command (lines 464-467)
CatchAll(o) ==
    IF o.result = "raise"
    THEN [o EXCEPT !.result = "continue",
                   !.spoken = Append(o.spoken,
                                     Say("I encountered an error processing your command.", <<>>))]
    ELSE o

IsStopCommand_Exact(lowered) ==
    lowered = <<"s","t","o","p"," ","l","i","s","t","e","n","i","n","g">>
\* "stop listening" in transcription
IsStopCommand(lowered) ==
    Contains(<<"s","t","o","p"," ","l","i","s","t","e","n","i","n","g">>, lowered)

IsThanks_AfterCommands(lowered) ==
    /\ ~Contains(<<"j","a","r","v","i","s">>, lowered)
    /\ \/ Contains(<<"t","h","a","n","k","s">>, lowered)
       \/ Contains(<<"t","h","a","n","k"," ","y","o","u">>, lowered)
\* "thanks" in transcription or "thank you" in transcription
IsThanks(lowered) ==
    \/ Contains(<<"t","h","a","n","k","s">>, lowered)
    \/ Contains(<<"t","h","a","n","k"," ","y","o","u">>, lowered)

IsCommand_Unchecked(command) == TRUE
\* "if command:": None is false, every handler object is true
IsCommand(command) == command.handler # "None"

command_text_of_Whole(lowered) == Strip(lowered)
\* command_text = transcription.split("jarvis", 1)[1].strip()
command_text_of(lowered) == Strip(AfterFirst(<<"j","a","r","v","i","s">>, lowered))

\* the "Handle Jarvis commands" branch (lines 450-460)
jarvis_command(lowered, ext, gen, cache) ==
    LET command_text == command_text_of(lowered)
        command == get_command(command_text)
    IN IF IsCommand(command)
       THEN IF HasExecute(command.handler)
            THEN LET r == execute(command.handler, command_text, ext)
                 IN Outcome(r.outcome, r.said,
                            <<[key |-> command.key, handler |-> command.handler,
                               text |-> command_text]>>,
                            <<>>, <<command>>, cache)
            ELSE Outcome("raise", <<>>, <<>>, <<>>, <<command>>, cache)
       ELSE handle_chatbot_query(command_text, gen, <<command>>, cache)

\* the try block of process_command (lines 433-462)
process_body(text, ext, gen, cache) ==
    IF text = <<>> THEN Outcome("continue", <<>>, <<>>, <<>>, <<>>, cache)
    ELSE LET lowered == Lower(text)
         IN IF IsStopCommand(lowered)
            THEN Outcome("stop", <<Say("Stopping listening.", <<>>)>>, <<>>, <<>>, <<>>, cache)
            ELSE IF IsThanks(lowered)
            THEN Outcome("continue", <<Say("You're welcome!", <<>>)>>, <<>>, <<>>, <<>>, cache)
            ELSE IF Contains(<<"j","a","r","v","i","s">>, lowered)
            THEN jarvis_command(lowered, ext, gen, cache)
            ELSE Outcome("continue", <<>>, <<>>, <<>>, <<>>, cache)

\* the transcriber recognizes one more phrase of the utterance
Recognize ==
    /\ command_result = "none"
    /\ Len(heard) < MaxPhrases
    /\ \E p \in Phrases : heard' = Append(heard, p)
    /\ UNCHANGED <<transcription, command_result, spoken, executed, chat_queries, selected>>
    /\ UNCHANGED <<wake_vars, chat_vars, rec_vars, loop_vars>>
    /\ UNCHANGED <<alias_vars, dev_vars, log_vars, rem_vars>>

\* process_command(transcription), the transcription being what was heard
process_command ==
    /\ command_result = "none"
    /\ \E ext \in Externals, gen \in Generations :
        LET text == JoinResults(heard)
            o == CatchAll(process_body(text, ext, gen, response_cache))
        IN /\ transcription' = text
           /\ command_result' = o.result
           /\ spoken' = o.spoken
           /\ executed' = o.executed
           /\ chat_queries' = o.chat_queries
           /\ selected' = o.selected
           /\ response_cache' = o.cache
           /\ births' = IF o.cache # response_cache
                        THEN BornAt(births, stores, response_cache, o.chat_queries[1])
                        ELSE births
           /\ stores' = IF o.cache # response_cache THEN stores + 1 ELSE stores
    /\ UNCHANGED <<heard, locked, lock_waiters, callers, calls>>
    /\ UNCHANGED <<wake_vars, rec_vars, loop_vars>>
    /\ UNCHANGED <<alias_vars, dev_vars, log_vars, rem_vars>>

NextRouter == Recognize \/ process_command

(***************************************************************************)
(* ChatBot.respond_async called by concurrent coroutines                   *)
(***************************************************************************)

\* how many coroutines call respond_async
NumCallers == 2
\* how many respond_async calls are made in all
MaxCalls == 4

Callers == 1..NumCallers
ChatTexts == { <<>>, <<"a">>, <<"b">>, <<"c">>, <<"d">> }

\* a coroutine that is not inside respond_async; hit, expect, invoked and
\* acquired are history of its current call: the text was a key of the cache
\* when the call began (and with what reply), generate_content was invoked,
\* the lock was acquired
Idle ==
    [pc |-> "idle", text |-> <<>>, reply |-> Say("", <<>>), hit |-> FALSE,
     expect |-> <<>>, invoked |-> FALSE, acquired |-> FALSE]

CanAcquire_Always(is_locked, waiters) == TRUE
\* "async with self._lock": asyncio.Lock.acquire takes a free lock at once
\* unless coroutines are queued on it; otherwise the caller queues
CanAcquire(is_locked, waiters) == ~is_locked /\ waiters = <<>>

\* a coroutine calls respond_async(text) and runs to its first suspension
respond_async(c) ==
    /\ callers[c].pc \in {"idle", "returned", "raised"}
    /\ calls < MaxCalls
    /\ calls' = calls + 1
    /\ \E text \in ChatTexts :
        LET was_key == text \in CacheKeys(response_cache)
            call == [Idle EXCEPT !.text = text, !.hit = was_key,
                                 !.expect = IF was_key THEN CacheGet(response_cache, text)
                                            ELSE <<>>]
        IN IF text = <<>>
           THEN /\ callers' = [callers EXCEPT ![c] =
                                  [call EXCEPT !.pc = "returned", !.reply = NoInputReply]]
                /\ UNCHANGED <<locked, lock_waiters>>
           ELSE IF CacheHit(response_cache, text)
           THEN /\ callers' = [callers EXCEPT ![c] =
                                  [call EXCEPT !.pc = "returned",
                                               !.reply = Say("", CacheGet(response_cache, text))]]
                /\ UNCHANGED <<locked, lock_waiters>>
           ELSE IF CanAcquire(locked, lock_waiters)
           THEN /\ callers' = [callers EXCEPT ![c] =
                                  [call EXCEPT !.pc = "generating", !.invoked = TRUE,
                                               !.acquired = TRUE]]
                /\ locked' = TRUE
                /\ UNCHANGED lock_waiters
           ELSE /\ callers' = [callers EXCEPT ![c] = [call EXCEPT !.pc = "waiting"]]
                /\ lock_waiters' = Append(lock_waiters, c)
                /\ UNCHANGED locked
    /\ UNCHANGED <<response_cache, births, stores>>
    /\ UNCHANGED <<wake_vars, router_vars, rec_vars, loop_vars>>
    /\ UNCHANGED <<alias_vars, dev_vars, log_vars, rem_vars>>

inside_lock_Recheck(cache, text) == IF CacheHit(cache, text) THEN "returned" ELSE "generating"
\* the first statement inside "async with self._lock" is the to_thread call
\* (line 56): the cache is not looked at again
inside_lock(cache, text) == "generating"

\* the first queued coroutine gets the released lock and calls
\* asyncio.to_thread(self.generate_content, input_text)
lock_granted(c) ==
    /\ callers[c].pc = "waiting"
    /\ ~locked
    /\ lock_waiters # <<>>
    /\ Head(lock_waiters) = c
    /\ locked' = TRUE
    /\ lock_waiters' = Tail(lock_waiters)
    /\ callers' = [callers EXCEPT ![c].pc = inside_lock(response_cache, callers[c].text),
                                  ![c].invoked = (inside_lock(response_cache, callers[c].text)
                                                     = "generating"),
                                  ![c].acquired = TRUE]
    /\ UNCHANGED <<response_cache, calls, births, stores>>
    /\ UNCHANGED <<wake_vars, router_vars, rec_vars, loop_vars>>
    /\ UNCHANGED <<alias_vars, dev_vars, log_vars, rem_vars>>

\* generate_content ends: the reply is stored and returned, or the exception
\* leaves the "async with" block; either way the lock is released
generate_done(c) ==
    /\ callers[c].pc = "generating"
    /\ \E gen \in Generations :
        IF gen.ok
        THEN /\ response_cache' = StoreReply(response_cache, callers[c].text, gen.reply)
             /\ births' = BornAt(births, stores, response_cache, callers[c].text)
             /\ stores' = stores + 1
             /\ callers' = [callers EXCEPT ![c].pc = "returned",
                                           ![c].reply = Say("", gen.reply)]
        ELSE /\ callers' = IF handle_error(HandlerSelf) = "raised"
                            THEN [callers EXCEPT ![c].pc = "raised"]
                            ELSE [callers EXCEPT ![c].pc = "returned", ![c].reply = Apology]
             /\ response_cache' = AfterFailure(response_cache, callers[c].text)
             /\ UNCHANGED <<births, stores>>
    /\ locked' = FALSE
    /\ UNCHANGED <<lock_waiters, calls>>
    /\ UNCHANGED <<wake_vars, router_vars, rec_vars, loop_vars>>
    /\ UNCHANGED <<alias_vars, dev_vars, log_vars, rem_vars>>

NextChat == \E c \in Callers : respond_async(c) \/ lock_granted(c) \/ generate_done(c)

(***************************************************************************)
(* Recorder.record                                                         *)
(***************************************************************************)

\* the longest recording tried besides the one of the source
MaxSeconds == 2

rate == 16000
chunk == 1024
max_retries == 3
\* self.record_seconds as __init__ sets it
InitialRecordSeconds == 7
\* the durations a record is made with
Durations == (1..MaxSeconds) \cup {InitialRecordSeconds}

total_frames_Ceil(seconds) == (rate * seconds + chunk - 1) \div chunk
\* int(self.rate / self.chunk * self.record_seconds): rate / chunk = 15.625 is
\* exact in binary floating point and so is its product with a small integer
total_frames(seconds) == (rate * seconds) \div chunk

\* what the except clause of record (lines 156-159) makes of an exception
RecordExcept == IF handle_error(HandlerSelf) = "raised" THEN "raise" ELSE "None"

\* _save_audio as seen by record: os.makedirs is outside its try block, the
\* writing of the file inside
SaveOutcomes == {"ok", "write fail", "makedirs fail"}
save_audio(sv) ==
    CASE sv = "ok" -> "file"
      [] sv = "write fail" -> "None"
      [] OTHER -> RecordExcept

\* the file audio/recording.wav: absent, or holding the frames written to it
NoFile == [exists |-> FALSE, data |-> <<>>]
\* wf.writeframes(b"".join(self.frames)): the frames in list order; a failed
\* wave.open(audio_file, "wb") or write leaves a file without usable frames
written(file, frs, sv) ==
    CASE sv = "ok" -> [exists |-> TRUE, data |-> frs]
      [] sv = "write fail" -> [exists |-> TRUE, data |-> <<>>]
      [] OTHER -> file

\* _cleanup_stream: close() is reached only when stop_stream() returns
cleanup_stream(strm, stop_ok, close_ok) ==
    [stops |-> 1,
     closes |-> IF stop_ok THEN 1 ELSE 0,
     stream |-> IF stop_ok /\ close_ok THEN "closed" ELSE strm]

\* the finally clause of record: if "stream" in locals() and stream
record_finally(strm, stop_ok, close_ok) ==
    IF strm \in {"unset", "None"}
    THEN [stops |-> 0, closes |-> 0, stream |-> strm]
    ELSE cleanup_stream(strm, stop_ok, close_ok)

\* how many times record is called
MaxRecords == 2

\* record is called, for the first time or after a call that returned or
\* raised an Exception; what the model keeps about one call starts afresh
record_begin ==
    /\ \/ rec_pc = "idle"
       \/ rec_pc = "done" /\ rec_result # "interrupt"
    /\ records < MaxRecords
    /\ records' = records + 1
    /\ rec_pc' = "opening"
    /\ open_attempts' = 0
    /\ stream' = "unset"
    /\ reads' = 0
    /\ failed_reads' = {}
    /\ rec_result' = "none"
    /\ stop_calls' = 0
    /\ close_calls' = 0
    /\ UNCHANGED <<record_seconds, frames, saved, max_level>>
    /\ UNCHANGED <<wake_vars, router_vars, chat_vars, loop_vars>>
    /\ UNCHANGED <<alias_vars, dev_vars, log_vars, rem_vars>>

setup_continues_AfterSuccess(attempt, ok) == attempt < max_retries
\* _setup_stream goes to its next attempt: "return stream" ends it at the
\* first success, "return None" after the failure of the last attempt
setup_continues(attempt, ok) == ~ok /\ attempt < max_retries

frames_at_start_Kept(frs) == frs
\* self.frames = [] (line 120), after the stream is set up
frames_at_start(frs) == <<>>

flagged_Discarded(level, result) == IF level = "below" THEN "None" ELSE result
\* "if max_level < self.min_audio_level: print(Warning...)" (lines 151-152),
\* then "return self._save_audio()": the warning changes nothing
flagged(level, result) == result

\* one attempt of _setup_stream; after the last failed one record raises,
\* after the first that succeeds record sets max_level = 0 and self.frames = []
\* "Failed to setup audio stream" into its except clause
setup_stream ==
    /\ rec_pc = "opening"
    /\ open_attempts < max_retries
    /\ open_attempts' = open_attempts + 1
    /\ \E ok \in BOOLEAN :
        IF setup_continues(open_attempts + 1, ok)
        THEN /\ stream' = IF ok THEN "open" ELSE stream
             /\ UNCHANGED <<rec_pc, rec_result, stop_calls, close_calls, frames, max_level>>
        ELSE IF ok
        THEN /\ stream' = "open"
             /\ rec_pc' = "reading"
             /\ frames' = frames_at_start(frames)
             /\ max_level' = "below"
             /\ UNCHANGED <<rec_result, stop_calls, close_calls>>
        ELSE LET fin == record_finally("None", TRUE, TRUE)
             IN /\ stream' = fin.stream
                /\ stop_calls' = stop_calls + fin.stops
                /\ close_calls' = close_calls + fin.closes
                /\ rec_result' = RecordExcept
                /\ rec_pc' = "done"
                /\ UNCHANGED <<frames, max_level>>
    /\ UNCHANGED <<record_seconds, reads, failed_reads, saved, records>>
    /\ UNCHANGED <<wake_vars, router_vars, chat_vars, loop_vars>>
    /\ UNCHANGED <<alias_vars, dev_vars, log_vars, rem_vars>>

\* the reads of a record that are tried with a failure: its first ones
MaxFailingRead == 2

after_read_ZeroPadded(frs, n, ok) == Append(frs, IF ok THEN n ELSE [n EXCEPT !.read = 0])
\* self.frames after the n-th pass of the frame loop: frames.append(data) is
\* the last statement of the inner try block, the except clause has "continue"
after_read(frs, n, ok) == IF ok THEN Append(frs, n) ELSE frs

\* one pass of the frame loop: a failed read is skipped
read_chunk ==
    /\ rec_pc = "reading"
    /\ reads < total_frames(record_seconds)
    /\ reads' = reads + 1
    /\ \E ok \in BOOLEAN, level \in {"below", "reached"} :
        /\ ok \/ (reads < MaxFailingRead /\ level = "below")
        /\ frames' = after_read(frames, [rec |-> records, read |-> reads + 1], ok)
        /\ failed_reads' = IF ok THEN failed_reads ELSE failed_reads \cup {reads + 1}
        /\ max_level' = IF ok /\ level = "reached" THEN "reached" ELSE max_level
    /\ UNCHANGED <<rec_pc, record_seconds, open_attempts, stream, rec_result,
                   stop_calls, close_calls, saved, records>>
    /\ UNCHANGED <<wake_vars, router_vars, chat_vars, loop_vars>>
    /\ UNCHANGED <<alias_vars, dev_vars, log_vars, rem_vars>>

\* KeyboardInterrupt during a blocking read: no except clause takes it, the
\* finally clause runs and it leaves record
read_interrupted ==
    /\ rec_pc = "reading"
    /\ reads < total_frames(record_seconds)
    /\ \E stop_ok, close_ok \in BOOLEAN :
        LET fin == record_finally(stream, stop_ok, close_ok)
        IN /\ stream' = fin.stream
           /\ stop_calls' = stop_calls + fin.stops
           /\ close_calls' = close_calls + fin.closes
    /\ rec_result' = "interrupt"
    /\ rec_pc' = "done"
    /\ UNCHANGED <<record_seconds, open_attempts, reads, frames, failed_reads, saved,
                   records, max_level>>
    /\ UNCHANGED <<wake_vars, router_vars, chat_vars, loop_vars>>
    /\ UNCHANGED <<alias_vars, dev_vars, log_vars, rem_vars>>

\* after the loop: return self._save_audio(), then the finally clause
save_and_return ==
    /\ rec_pc = "reading"
    /\ reads = total_frames(record_seconds)
    /\ \E sv \in SaveOutcomes, stop_ok, close_ok \in BOOLEAN :
        LET fin == record_finally(stream, stop_ok, close_ok)
        IN /\ rec_result' = flagged(max_level, save_audio(sv))
           /\ saved' = written(saved, frames, sv)
           /\ stream' = fin.stream
           /\ stop_calls' = stop_calls + fin.stops
           /\ close_calls' = close_calls + fin.closes
    /\ rec_pc' = "done"
    /\ UNCHANGED <<record_seconds, open_attempts, reads, frames, failed_reads, records,
                   max_level>>
    /\ UNCHANGED <<wake_vars, router_vars, chat_vars, loop_vars>>
    /\ UNCHANGED <<alias_vars, dev_vars, log_vars, rem_vars>>

NextRecorder ==
    record_begin \/ setup_stream \/ read_chunk \/ read_interrupted \/ save_and_return

(***************************************************************************)
(* run_assistant: the loop of main.py                                      *)
(***************************************************************************)

\* how many times the loop calls listen_for_wake_word
MaxPolls == 3

\* the positions inside "while True"
InLoop == {"Listening", "Detected", "Capturing", "Transcribing", "Routing", "Pausing"}

\* the frames the loop's detector is given
LoopFrames ==
    { Frame("error", "partial", "text", <<>>),
      Frame("ok", "partial", "text", <<>>),
      Frame("ok", "final", "text", <<"h","e","l","l","o">>),
      Frame("ok", "final", "text", <<"h","e","y"," ","j","a","r","v","i","s">>) }

\* what transcribe_audio collects in results (None when the file is missing,
\* not mono 16 kHz PCM, or the decoding raises)
LoopUtterances ==
    { << <<>> >>,
      << <<"s","t","o","p"," ","l","i","s","t","e","n","i","n","g">> >>,
      << <<"J","a","r","v","i","s">>, <<"s","t","o","p"," ","l","i","s","t","e","n","i","n","g">> >>,
      << <<"J","a","r","v","i","s">>, <<"h","e","l","l","o">> >>,
      << <<"J","a","r","v","i","s">>, <<"w","e","a","t","h","e","r">> >>,
      << <<"t","h","a","n","k","s">> >> }

\* what r.record() gives the loop
RecordOutcomes == {save_audio(sv) : sv \in SaveOutcomes} \cup {RecordExcept}

BreaksLoop_Always(result) == TRUE
\* if command_result == "stop": break
BreaksLoop(result) == result = "stop"

LoopCatches_Nothing(exc) == FALSE
\* "except Exception" of lines 93-97, around the whole iteration
LoopCatches(exc) == exc \in {"Exception", "AttributeError"}

\* WakeWordDetector.cleanup: one try block around is_active, stop_stream,
\* close and terminate; the library either lets them all through or raises
\* in is_active or stop_stream (as on a stream that is already closed)
cleanup(lib_ok) ==
    /\ wake_cleanups' = wake_cleanups + 1
    /\ wake_closes' = IF lib_ok THEN wake_closes + 1 ELSE wake_closes
    /\ wake_terminates' = IF lib_ok THEN wake_terminates + 1 ELSE wake_terminates

\* if wake_detector.listen_for_wake_word(): ... else: await asyncio.sleep(0.1)
loop_poll ==
    /\ loop_pc = "Listening"
    /\ polls < MaxPolls
    /\ polls' = polls + 1
    /\ \E fr \in LoopFrames, reopen_ok \in BOOLEAN : wake_poll(fr, reopen_ok)
    /\ loop_pc' = IF wake_result' = "true" THEN "Detected" ELSE "Listening"
    /\ \E dt \in 0..1 : wake_clock' = wake_clock + dt
    /\ UNCHANGED <<loop_exit, captures, dispatches, caught, recorder_terminates,
                   wake_cleanups, wake_closes, wake_terminates>>
    /\ UNCHANGED <<router_vars, chat_vars, rec_vars>>
    /\ UNCHANGED <<alias_vars, dev_vars, log_vars, rem_vars>>

\* await tts.speak("Yes, I'm listening"): speak keeps its exceptions
loop_speak ==
    /\ loop_pc = "Detected"
    /\ loop_pc' = "Capturing"
    /\ UNCHANGED <<loop_exit, polls, captures, dispatches, caught, recorder_terminates,
                   wake_cleanups, wake_closes, wake_terminates>>
    /\ UNCHANGED <<wake_vars, router_vars, chat_vars, rec_vars>>
    /\ UNCHANGED <<alias_vars, dev_vars, log_vars, rem_vars>>

\* self.audio.open(...) of _setup_stream on the Recorder's one PyAudio
\* object: once __exit__ has called self.audio.terminate() on it, whether
\* open still works is up to the library (it does while another PyAudio
\* object keeps PortAudio initialised, and raises otherwise)
audio_open(terminated, d) == IF terminated THEN BOOLEAN ELSE {d.open}

after_capture_Always(audio_file) == "Transcribing"
\* if not audio_file: ... continue
after_capture(audio_file) == IF audio_file = "None" THEN "Listening" ELSE "Transcribing"

\* with recorder as r: audio_file = r.record(), and "if not audio_file"; the
\* capture is kept by its outcome: the stream opened or not, the level, one
\* frame standing for those read, and the file _save_audio left
loop_capture ==
    /\ loop_pc = "Capturing"
    /\ captures' = captures + 1
    /\ recorder_terminates' = recorder_terminates + 1
    /\ wake_clock' = wake_clock + record_seconds * TicksPerSecond
    /\ \E opened \in audio_open(recorder_terminates > 0, devices[input_device_index]),
          level \in {"below", "reached"}, sv \in SaveOutcomes :
        LET outcome == IF opened THEN flagged(level, save_audio(sv)) ELSE RecordExcept
        IN /\ rec_result' = outcome
           /\ stream' = IF opened THEN "closed" ELSE "None"
           /\ frames' = IF opened THEN <<[rec |-> captures + 1, read |-> 1]>> ELSE frames
           /\ max_level' = IF opened THEN level ELSE max_level
           /\ saved' = IF opened THEN written(saved, frames', sv) ELSE saved
           /\ IF outcome = "raise"
              THEN IF LoopCatches("AttributeError")
                   THEN loop_pc' = "Pausing" /\ caught' = caught + 1 /\ loop_exit' = loop_exit
                   ELSE loop_pc' = "Exiting" /\ caught' = caught /\ loop_exit' = "Exception"
              ELSE /\ loop_pc' = after_capture(outcome)
                   /\ UNCHANGED <<caught, loop_exit>>
    /\ UNCHANGED <<polls, dispatches, wake_cleanups, wake_closes, wake_terminates>>
    /\ UNCHANGED <<last_detection_time, frame_counter, wake_frame, wake_result,
                   wake_reopened, true_times>>
    /\ UNCHANGED <<rec_pc, record_seconds, open_attempts, reads,
                   stop_calls, close_calls, failed_reads, records>>
    /\ UNCHANGED <<router_vars, chat_vars>>
    /\ UNCHANGED <<alias_vars, dev_vars, log_vars, rem_vars>>

\* transcription = transcriber.transcribe_audio(audio_file), and
\* "if not transcription"
loop_transcribe ==
    /\ loop_pc = "Transcribing"
    /\ \E transcribed \in BOOLEAN, results \in LoopUtterances :
        LET text == IF transcribed THEN JoinResults(results) ELSE <<>>
        IN /\ heard' = IF transcribed THEN results ELSE <<>>
           /\ transcription' = text
           /\ loop_pc' = IF text = <<>> THEN "Listening" ELSE "Routing"
    /\ command_result' = "none"
    /\ UNCHANGED <<spoken, executed, chat_queries, selected>>
    /\ UNCHANGED <<loop_exit, polls, captures, dispatches, caught, recorder_terminates,
                   wake_cleanups, wake_closes, wake_terminates>>
    /\ UNCHANGED <<wake_vars, chat_vars, rec_vars>>
    /\ UNCHANGED <<alias_vars, dev_vars, log_vars, rem_vars>>

\* command_result = await command_handler.process_command(transcription)
\* inside the inner try (lines 69-86), then back to the top of the loop
loop_route ==
    /\ loop_pc = "Routing"
    /\ dispatches' = dispatches + 1
    /\ \E ext \in Externals, gen \in Generations :
        LET o == CatchAll(process_body(transcription, ext, gen, response_cache))
        IN /\ command_result' = o.result
           /\ spoken' = IF o.result = "raise"
                         THEN Append(o.spoken,
                                     Say("I encountered an error processing your command.", <<>>))
                         ELSE o.spoken
           /\ executed' = o.executed
           /\ chat_queries' = o.chat_queries
           /\ selected' = o.selected
           /\ response_cache' = o.cache
           /\ births' = IF o.cache # response_cache
                        THEN BornAt(births, stores, response_cache, o.chat_queries[1])
                        ELSE births
           /\ stores' = IF o.cache # response_cache THEN stores + 1 ELSE stores
           /\ IF BreaksLoop(o.result)
              THEN loop_pc' = "Exiting" /\ loop_exit' = "stop"
              ELSE loop_pc' = "Listening" /\ loop_exit' = loop_exit
    /\ UNCHANGED <<heard, transcription, locked, lock_waiters, callers, calls>>
    /\ UNCHANGED <<polls, captures, caught, recorder_terminates,
                   wake_cleanups, wake_closes, wake_terminates>>
    /\ UNCHANGED <<wake_vars, rec_vars>>
    /\ UNCHANGED <<alias_vars, dev_vars, log_vars, rem_vars>>

\* the except clause of the iteration (lines 93-97): log, sleep, continue
loop_pause ==
    /\ loop_pc = "Pausing"
    /\ loop_pc' = "Listening"
    /\ UNCHANGED <<loop_exit, polls, captures, dispatches, caught, recorder_terminates,
                   wake_cleanups, wake_closes, wake_terminates>>
    /\ UNCHANGED <<wake_vars, router_vars, chat_vars, rec_vars>>
    /\ UNCHANGED <<alias_vars, dev_vars, log_vars, rem_vars>>

\* Ctrl-C: KeyboardInterrupt raised in the running code, or the task
\* cancelled by asyncio.run (CancelledError at an await); neither is an
\* Exception, so both leave the loop and the "with" block
loop_interrupt ==
    /\ loop_pc \in InLoop
    /\ \E kind \in {"KeyboardInterrupt", "CancelledError"} : loop_exit' = kind
    /\ loop_pc' = "Exiting"
    /\ UNCHANGED <<polls, captures, dispatches, caught, recorder_terminates,
                   wake_cleanups, wake_closes, wake_terminates>>
    /\ UNCHANGED <<wake_vars, router_vars, chat_vars, rec_vars>>
    /\ UNCHANGED <<alias_vars, dev_vars, log_vars, rem_vars>>

\* leaving "with WakeWordDetector(config) as wake_detector": __exit__ calls
\* cleanup
with_exit ==
    /\ loop_pc = "Exiting"
    /\ \E lib_ok \in BOOLEAN : cleanup(lib_ok)
    /\ loop_pc' = "Finally"
    /\ UNCHANGED <<loop_exit, polls, captures, dispatches, caught, recorder_terminates>>
    /\ UNCHANGED <<wake_vars, router_vars, chat_vars, rec_vars>>
    /\ UNCHANGED <<alias_vars, dev_vars, log_vars, rem_vars>>

\* the except clauses and the finally clause of run_assistant (lines 99-107):
\* wake_detector is a local by now, so cleanup is called; run_assistant then
\* returns, or the exception that no clause took goes on
run_finally ==
    /\ loop_pc = "Finally"
    /\ \E lib_ok \in BOOLEAN : cleanup(lib_ok)
    /\ loop_pc' = IF loop_exit \in {"stop", "KeyboardInterrupt"} THEN "Stopped" ELSE "Raised"
    /\ UNCHANGED <<loop_exit, polls, captures, dispatches, caught, recorder_terminates>>
    /\ UNCHANGED <<wake_vars, router_vars, chat_vars, rec_vars>>
    /\ UNCHANGED <<alias_vars, dev_vars, log_vars, rem_vars>>

NextLoop ==
    \/ loop_poll \/ loop_speak \/ loop_capture \/ loop_transcribe \/ loop_route
    \/ loop_pause \/ loop_interrupt \/ with_exit \/ run_finally

(***************************************************************************)
(* _get_command and the branch of process_command after it, over registries*)
(* whose aliases may name a key that is not registered                     *)
(***************************************************************************)

\* the longest alias dict tried
MaxAliases == 2

\* aliases and the keys they are given: two registered keys and one that is
\* not a key of self.commands
AliasEntries ==
    {[alias |-> a, target |-> k] :
        a \in {<<"l","a","u","n","c","h">>, <<"s","t","a","r","t">>, <<"r","u","n">>},
        k \in {<<"o","p","e","n">>, <<"p","l","a","y">>, <<"t","e","l","e","p","o","r","t">>}}
\* a dict has each key once
AliasRegistries ==
    UNION {{r \in [1..n -> AliasEntries] :
               \A i, j \in 1..n : r[i].alias = r[j].alias => i = j} : n \in 0..MaxAliases}
\* command texts without a direct key
AliasTexts ==
    {<<"l","a","u","n","c","h">>, <<"s","t","a","r","t">>, <<"r","u","n"," ","c","h","r","o","m","e">>,
     <<"l","a","u","n","c","h"," ","a","n","d"," ","s","t","a","r","t">>, <<"s","t","a","r","t"," ","o","r"," ","r","u","n">>,
     <<"p","l","e","a","s","e"," ","r","u","n"," ","l","a","u","n","c","h">>, <<"h","e","l","l","o">>}

\* command = self._get_command(command_text) and the branch on it: "if
\* command: ... execute", else _handle_chatbot_query (lines 453-460)
lookup_alias ==
    /\ \E text \in AliasTexts :
        /\ alias_text' = text
        /\ alias_found' = get_command_in(commands, alias_registry, text)
        /\ alias_route' = IF IsCommand(get_command_in(commands, alias_registry, text))
                          THEN "execute" ELSE "chatbot"
    /\ UNCHANGED alias_registry
    /\ UNCHANGED <<wake_vars, router_vars, chat_vars, rec_vars, loop_vars, dev_vars>>
    /\ UNCHANGED <<log_vars, rem_vars>>

NextAlias == lookup_alias

(***************************************************************************)
(* Recorder.__init__: the choice of the input device, and main around it   *)
(***************************************************************************)

\* the most devices the platform has
MaxDevices == 2

\* a device as the calls of the selection see it: get_device_info_by_index
\* (raising or not), maxInputChannels, audio.open, the read of one chunk
\* (raising, b"" or data), the level of the data, stop_stream and close
Device(inf, inputs, op, rd, lvl, td) ==
    [info |-> inf, maxInputChannels |-> inputs, open |-> op, read |-> rd,
     level |-> lvl, teardown |-> td]
DeviceKinds ==
    {Device(TRUE, 1, TRUE, "data", "loud", TRUE),
     Device(TRUE, 1, TRUE, "data", "silent", TRUE),
     Device(TRUE, 1, FALSE, "data", "loud", TRUE),
     Device(TRUE, 1, TRUE, "raise", "silent", TRUE),
     Device(TRUE, 1, TRUE, "empty", "silent", TRUE),
     Device(TRUE, 1, TRUE, "data", "loud", FALSE),
     Device(TRUE, 0, TRUE, "data", "loud", TRUE),
     Device(FALSE, 1, TRUE, "data", "loud", TRUE)}
\* the None of "return None", and get_default_input_device_info raising
NoDevice == -1

test_device_NeedsLevel(d) == d.open /\ d.read = "data" /\ d.teardown /\ d.level = "loud"
\* _test_device: open, read, _calculate_audio_level (which raises nothing),
\* stop_stream, close, "return len(data) > 0"; any exception gives False
test_device(d) == d.open /\ d.read = "data" /\ d.teardown

\* the first half of _get_best_input_device: the default device and its test
get_best_input_device ==
    /\ dev_pc = "start"
    /\ IF default_device # NoDevice
       THEN /\ probes' = [probes EXCEPT ![default_device] = @ + 1]
            /\ IF test_device(devices[default_device])
               THEN input_device_index' = default_device /\ dev_pc' = "returned"
               ELSE input_device_index' = input_device_index /\ dev_pc' = "scanning"
       ELSE /\ dev_pc' = "scanning"
            /\ UNCHANGED <<probes, input_device_index>>
    /\ UNCHANGED <<devices, default_device, scan_index, startup>>
    /\ UNCHANGED <<wake_vars, router_vars, chat_vars, rec_vars, loop_vars, alias_vars>>
    /\ UNCHANGED <<log_vars, rem_vars>>

\* one pass of the for loop of _find_working_device, or its "return None"
find_working_device ==
    /\ dev_pc = "scanning"
    /\ IF scan_index < Cardinality(DOMAIN devices)
       THEN LET d == devices[scan_index]
                tested == d.info /\ d.maxInputChannels > 0
            IN /\ probes' = IF tested THEN [probes EXCEPT ![scan_index] = @ + 1] ELSE probes
               /\ IF tested /\ test_device(d)
                  THEN /\ input_device_index' = scan_index
                       /\ dev_pc' = "returned"
                       /\ UNCHANGED scan_index
                  ELSE /\ scan_index' = scan_index + 1
                       /\ UNCHANGED <<input_device_index, dev_pc>>
       ELSE /\ input_device_index' = NoDevice
            /\ dev_pc' = "returned"
            /\ UNCHANGED <<scan_index, probes>>
    /\ UNCHANGED <<devices, default_device, startup>>
    /\ UNCHANGED <<wake_vars, router_vars, chat_vars, rec_vars, loop_vars, alias_vars>>
    /\ UNCHANGED <<log_vars, rem_vars>>

recorder_init_AcceptsNone(index) == "constructed"
\* the end of Recorder.__init__ (lines 31-32)
recorder_init(index) == IF index = NoDevice THEN "ValueError" ELSE "constructed"

\* main after Recorder(config): the constructors that follow it and
\* run_assistant, or the except clause, whose handle_error call raises
\* before sys.exit(1) is reached
main_after(constructed, rest_ok) ==
    IF constructed = "constructed" /\ rest_ok THEN "run_assistant"
    ELSE IF handle_error(HandlerSelf) = "raised" THEN "AttributeError" ELSE "exit 1"

\* Recorder.__init__ returns or raises, and main goes on from there
main_startup ==
    /\ dev_pc = "returned"
    /\ dev_pc' = "done"
    /\ \E rest_ok \in BOOLEAN :
         startup' = main_after(recorder_init(input_device_index), rest_ok)
    /\ UNCHANGED <<devices, default_device, scan_index, probes, input_device_index>>
    /\ UNCHANGED <<wake_vars, router_vars, chat_vars, rec_vars, loop_vars, alias_vars>>
    /\ UNCHANGED <<log_vars, rem_vars>>

NextDevices == get_best_input_device \/ find_working_device \/ main_startup

(***************************************************************************)
(* EnhancedErrorHandler.log_error                                          *)
(***************************************************************************)

\* how many log_error calls are made
MaxLogCalls == 103
max_log_size == 100

trimmed_Newest(log) == IF Len(log) > max_log_size THEN SubSeq(log, 1, Len(log) - 1) ELSE log
\* if len(self.error_log) > self.max_log_size: self.error_log.pop(0)
trimmed(log) == IF Len(log) > max_log_size THEN Tail(log) ELSE log

\* log_error: the entry is appended, then the log is trimmed
log_error ==
    /\ errors_logged < MaxLogCalls
    /\ errors_logged' = errors_logged + 1
    /\ error_log' = trimmed(Append(error_log, errors_logged + 1))
    /\ UNCHANGED <<wake_vars, router_vars, chat_vars, rec_vars, loop_vars, alias_vars,
                   dev_vars, rem_vars>>

NextErrors == log_error

(***************************************************************************)
(* ReminderSystem: add_reminder, set_timer and the checker thread          *)
(***************************************************************************)

\* how far the clock runs, in minutes
MaxTime == 2
\* how many timers are set
MaxTimers == 1
\* timedelta(days=1), in minutes
DayMinutes == 1440

\* add_reminder with a time string that _parse_time takes: a time of today
\* that has passed becomes the same time tomorrow
add_reminder ==
    /\ \E reminder_text \in {"pills"}, parsed \in 0..MaxTime :
        LET reminder_time == IF parsed < rem_clock THEN parsed + DayMinutes ELSE parsed
        IN reminders' = (reminder_text :> reminder_time) @@ reminders
    /\ UNCHANGED <<timers, rem_clock, checker, announced, removed_early>>
    /\ UNCHANGED <<wake_vars, router_vars, chat_vars, rec_vars, loop_vars, alias_vars,
                   dev_vars, log_vars>>

\* set_timer with a duration in minutes, with a label or without one
set_timer ==
    /\ Cardinality(DOMAIN timers) < MaxTimers
    /\ \E label \in {"", "tea"}, mins \in {1} :
        LET key == IF label # "" THEN label
                   ELSE IF Cardinality(DOMAIN timers) = 0 THEN "Timer 1"
                   ELSE IF Cardinality(DOMAIN timers) = 1 THEN "Timer 2"
                   ELSE "Timer 3"
        IN timers' = (key :> rem_clock + mins) @@ timers
    /\ UNCHANGED <<reminders, rem_clock, checker, announced, removed_early>>
    /\ UNCHANGED <<wake_vars, router_vars, chat_vars, rec_vars, loop_vars, alias_vars,
                   dev_vars, log_vars>>

\* a minute passes
rem_tick ==
    /\ rem_clock < MaxTime
    /\ rem_clock' = rem_clock + 1
    /\ UNCHANGED <<reminders, timers, checker, announced, removed_early>>
    /\ UNCHANGED <<wake_vars, router_vars, chat_vars, rec_vars, loop_vars, alias_vars,
                   dev_vars, log_vars>>

\* one step of _check_reminders_and_timers: the loop over self.reminders, the
\* deletions, the loop over self.timers, the deletions, and time.sleep(1).
\* "time" is the target of the for loop of line 118 and so a local of the
\* function: at line 138 it is unbound (UnboundLocalError) or the datetime
\* of the last reminder (AttributeError), and the thread ends.
check_reminders_and_timers ==
    /\ checker.pc # "dead"
    /\ CASE checker.pc = "reminders" ->
              LET due == {text \in DOMAIN reminders : reminders[text] <= rem_clock}
              IN /\ checker' = [pc |-> "delete reminders", now |-> rem_clock, completed |-> due]
                 /\ announced' = [l \in DOMAIN announced \cup due |->
                                     IF l \in due
                                     THEN (IF l \in DOMAIN announced THEN announced[l] ELSE 0) + 1
                                     ELSE announced[l]]
                 /\ UNCHANGED <<reminders, timers, removed_early>>
         [] checker.pc = "delete reminders" ->
              /\ reminders' = [text \in DOMAIN reminders \ checker.completed |-> reminders[text]]
              /\ removed_early' = removed_early \cup
                     {text \in checker.completed : reminders[text] > rem_clock}
              /\ checker' = [checker EXCEPT !.pc = "timers", !.completed = {}]
              /\ UNCHANGED <<timers, announced>>
         [] checker.pc = "timers" ->
              LET due == {label \in DOMAIN timers : timers[label] <= checker.now}
              IN /\ checker' = [checker EXCEPT !.pc = "delete timers", !.completed = due]
                 /\ announced' = [l \in DOMAIN announced \cup due |->
                                     IF l \in due
                                     THEN (IF l \in DOMAIN announced THEN announced[l] ELSE 0) + 1
                                     ELSE announced[l]]
                 /\ UNCHANGED <<reminders, timers, removed_early>>
         [] checker.pc = "delete timers" ->
              /\ timers' = [label \in DOMAIN timers \ checker.completed |-> timers[label]]
              /\ removed_early' = removed_early \cup
                     {label \in checker.completed : timers[label] > rem_clock}
              /\ checker' = [checker EXCEPT !.pc = "sleep", !.completed = {}]
              /\ UNCHANGED <<reminders, announced>>
         [] OTHER ->
              /\ checker' = [checker EXCEPT !.pc = "dead"]
              /\ UNCHANGED <<reminders, timers, announced, removed_early>>
    /\ UNCHANGED rem_clock
    /\ UNCHANGED <<wake_vars, router_vars, chat_vars, rec_vars, loop_vars, alias_vars,
                   dev_vars, log_vars>>

NextReminders == add_reminder \/ set_timer \/ rem_tick \/ check_reminders_and_timers

(***************************************************************************)
(* Initial states and specifications                                       *)
(***************************************************************************)

\* EnhancedErrorHandler.__init__
InitErrors ==
    /\ error_log = <<>>
    /\ errors_logged = 0

\* ReminderSystem.__init__ without a reminder file: the thread is started
InitReminders ==
    /\ reminders = <<>>
    /\ timers = <<>>
    /\ rem_clock = 0
    /\ checker = [pc |-> "reminders", now |-> 0, completed |-> {}]
    /\ announced = <<>>
    /\ removed_early = {}

\* the alias dict of the source, no lookup made
InitAlias ==
    /\ alias_registry = command_aliases
    /\ alias_text = <<>>
    /\ alias_found = NoCommand
    /\ alias_route = "none"

\* a Recorder constructed on a platform with one working device
InitDevices ==
    /\ devices = [i \in {0} |-> Device(TRUE, 1, TRUE, "data", "loud", TRUE)]
    /\ default_device = 0
    /\ dev_pc = "done"
    /\ scan_index = 0
    /\ probes = [i \in {0} |-> 1]
    /\ input_device_index = 0
    /\ startup = "run_assistant"

InitWake ==
    /\ wake_clock = ClockAtStart
    /\ last_detection_time = 0
    /\ frame_counter = 0
    /\ wake_frame = NoFrame
    /\ wake_result = "none"
    /\ wake_reopened = "no"
    /\ true_times = <<>>

InitCommands ==
    /\ heard = <<>>
    /\ transcription = <<>>
    /\ command_result = "none"
    /\ spoken = <<>>
    /\ executed = <<>>
    /\ chat_queries = <<>>
    /\ selected = <<>>

InitChat ==
    /\ response_cache = <<>>
    /\ locked = FALSE
    /\ lock_waiters = <<>>
    /\ callers = [c \in Callers |-> Idle]
    /\ calls = 0
    /\ births = <<>>
    /\ stores = 0

\* a Recorder after __init__, record not yet called
InitRecorder ==
    /\ rec_pc = "idle"
    /\ record_seconds = InitialRecordSeconds
    /\ open_attempts = 0
    /\ stream = "unset"
    /\ reads = 0
    /\ frames = <<>>
    /\ failed_reads = {}
    /\ saved = NoFile
    /\ records = 0
    /\ max_level = "below"
    /\ rec_result = "none"
    /\ stop_calls = 0
    /\ close_calls = 0

\* run_assistant has entered "with WakeWordDetector(config) as wake_detector"
InitLoop ==
    /\ loop_pc = "Listening"
    /\ loop_exit = "none"
    /\ polls = 0
    /\ captures = 0
    /\ dispatches = 0
    /\ caught = 0
    /\ recorder_terminates = 0
    /\ wake_cleanups = 0
    /\ wake_closes = 0
    /\ wake_terminates = 0

Init ==
    /\ InitWake /\ InitCommands /\ InitChat /\ InitRecorder /\ InitLoop /\ InitErrors /\ InitReminders
    /\ InitAlias /\ InitDevices

\* process_command on a handler that has answered "hello" before, or nothing
InitRouter ==
    /\ InitWake
    /\ InitCommands
    /\ locked = FALSE
    /\ lock_waiters = <<>>
    /\ callers = [c \in Callers |-> Idle]
    /\ calls = 0
    /\ InitRecorder
    /\ InitLoop
    /\ InitErrors
    /\ InitReminders
    /\ InitAlias
    /\ InitDevices
    /\ \/ response_cache = <<>> /\ births = <<>> /\ stores = 0
       \/ /\ response_cache = <<[text |-> <<"h","e","l","l","o">>, reply |-> <<"r","1">>]>>
          /\ births = (<<"h","e","l","l","o">> :> 1)
          /\ stores = 1

\* a Recorder whose record_seconds was set to one of the durations
InitRecorderSpec ==
    /\ InitWake
    /\ InitCommands
    /\ InitChat
    /\ InitLoop
    /\ InitErrors
    /\ InitReminders
    /\ InitAlias
    /\ InitDevices
    /\ rec_pc = "idle"
    /\ record_seconds \in Durations
    /\ open_attempts = 0
    /\ stream = "unset"
    /\ reads = 0
    /\ frames = <<>>
    /\ failed_reads = {}
    /\ saved = NoFile
    /\ records = 0
    /\ max_level = "below"
    /\ rec_result = "none"
    /\ stop_calls = 0
    /\ close_calls = 0

\* _get_command on a handler with one of the alias dicts
InitAliasSpec ==
    /\ InitWake /\ InitCommands /\ InitChat /\ InitRecorder /\ InitLoop /\ InitDevices /\ InitErrors /\ InitReminders
    /\ alias_registry \in AliasRegistries
    /\ alias_text = <<>>
    /\ alias_found = NoCommand
    /\ alias_route = "none"

\* main calls Recorder(config) on a platform with devices 0 ..
\* get_device_count() - 1; the default input device, when there is one, has
\* input channels
InitDevicesSpec ==
    /\ InitWake /\ InitCommands /\ InitChat /\ InitRecorder /\ InitLoop /\ InitAlias /\ InitErrors /\ InitReminders
    /\ devices \in UNION {[0..(n - 1) -> DeviceKinds] : n \in 0..MaxDevices}
    /\ default_device \in {NoDevice} \cup
           {i \in DOMAIN devices : devices[i].info /\ devices[i].maxInputChannels > 0}
    /\ dev_pc = "start"
    /\ scan_index = 0
    /\ probes = [i \in DOMAIN devices |-> 0]
    /\ input_device_index = NoDevice
    /\ startup = "constructing"

\* ReminderSystem.__init__ with the reminders load_reminders found, one of
\* them of a time that has passed
InitRemindersSpec ==
    /\ InitWake /\ InitCommands /\ InitChat /\ InitRecorder /\ InitLoop /\ InitAlias
    /\ InitDevices /\ InitErrors
    /\ reminders \in {<<>>, ("pills" :> 0), ("pills" :> 0) @@ ("call" :> 2)}
    /\ timers = <<>>
    /\ rem_clock \in 0..1
    /\ checker = [pc |-> "reminders", now |-> 0, completed |-> {}]
    /\ announced = <<>>
    /\ removed_early = {}

Next ==
    NextWake \/ NextRouter \/ NextChat \/ NextRecorder \/ NextLoop \/ NextAlias
        \/ NextDevices \/ NextErrors \/ NextReminders

Spec == Init /\ [][Next]_vars
SpecWake == Init /\ [][NextWake]_vars
SpecRouter == InitRouter /\ [][NextRouter]_vars
SpecChat == Init /\ [][NextChat]_vars
SpecRecorder == InitRecorderSpec /\ [][NextRecorder]_vars
SpecLoop == Init /\ [][NextLoop]_vars
SpecAlias == InitAliasSpec /\ [][NextAlias]_vars
SpecDevices == InitDevicesSpec /\ [][NextDevices]_vars
SpecErrors == Init /\ [][NextErrors]_vars
SpecReminders == InitRemindersSpec /\ [][NextReminders]_vars

(***************************************************************************)
(* Claims                                                                  *)
(***************************************************************************)

\* texts used to state the claims
StopPhrase == <<"s","t","o","p"," ","l","i","s","t","e","n","i","n","g">>
ThanksPhrases == { <<"t","h","a","n","k","s">>, <<"t","h","a","n","k"," ","y","o","u">> }
LoweredTranscription == Lower(transcription)
HasThanks == \E t \in ThanksPhrases : Contains(t, LoweredTranscription)
\* the text after the first "jarvis", trimmed
TextAfterWakeWord == Strip(AfterFirst(wake_word, LoweredTranscription))
\* process_command has been called and has ended
Dispatched == command_result # "none"

\* C1: between any two True returns of listen_for_wake_word more than
\* detection_cooldown has elapsed, so two calls within the cooldown window
\* never both return True.
C1_CooldownBetweenDetections ==
    \A i, j \in 1..Len(true_times) :
        i < j => true_times[j] - true_times[i] > detection_cooldown

\* a finalized text with the wake word, heard within the cooldown window of a
\* detection, was answered False
C1_Witness ==
    /\ true_times # <<>>
    /\ wake_result = "false"
    /\ wake_frame.read = "ok" /\ wake_frame.decode = "final" /\ wake_frame.result = "text"
    /\ Contains(wake_word, Lower(wake_frame.text))
    /\ wake_clock - true_times[Len(true_times)] <= detection_cooldown

\* C2: listen_for_wake_word returns True only for a finalized frame whose
\* decoded text contains "jarvis" (case-insensitively): never for a frame that
\* is not finalized, an empty text or a text without the wake word, whatever the
\* time since the last detection.
C2_TrueOnlyWithWakeWord ==
    wake_result = "true" =>
        /\ wake_frame.read = "ok"
        /\ wake_frame.decode = "final"
        /\ wake_frame.result = "text"
        /\ Contains(wake_word, Lower(wake_frame.text))

\* after an earlier detection and with the cooldown elapsed, a finalized text
\* without the wake word was answered False
C2_Witness ==
    /\ true_times # <<>>
    /\ wake_clock - last_detection_time > detection_cooldown
    /\ wake_frame = Frame("ok", "final", "text", <<"h","e","l","l","o">>)
    /\ wake_result = "false"

\* C3: for every transcription containing "stop listening", process_command
\* returns "stop", tts.speak is called exactly once, with "Stopping listening.",
\* and no handler and no responder is invoked.
C3_StopPhraseStops ==
    (Dispatched /\ Contains(StopPhrase, LoweredTranscription)) =>
        /\ command_result = "stop"
        /\ spoken = <<Say("Stopping listening.", <<>>)>>
        /\ executed = <<>>
        /\ chat_queries = <<>>

\* "jarvis ... stop listening" together with the thanks phrase or a key
C3_Witness ==
    /\ command_result = "stop"
    /\ Contains(wake_word, LoweredTranscription)
    /\ HasThanks \/ Contains(<<"o","p","e","n">>, LoweredTranscription)

\* C4: when the command text contains a registered direct key, _get_command
\* returns the entry of a direct key contained in the text, also when the text
\* contains an alias with another target; an alias target that is not itself in
\* the text is returned only when no direct key is in the text.
C4_DirectKeyBeforeAlias ==
    (selected # <<>> /\ DirectMatches(TextAfterWakeWord) # {}) =>
        /\ selected[1].key # <<>>
        /\ Contains(selected[1].key, TextAfterWakeWord)
        /\ \E i \in DOMAIN commands : selected[1] = commands[i]

\* the text holds the key "play" and the alias "launch" (of "open"), and the
\* entry of "play" was selected
C4_Witness ==
    /\ selected # <<>>
    /\ Contains(<<"l","a","u","n","c","h">>, TextAfterWakeWord)
    /\ Contains(<<"p","l","a","y">>, TextAfterWakeWord)
    /\ ~Contains(<<"o","p","e","n">>, TextAfterWakeWord)
    /\ selected[1].key = <<"p","l","a","y">>

\* no stop phrase, no thanks phrase, no registered key and no alias in the text
Unregistered ==
    /\ transcription # <<>>
    /\ ~Contains(StopPhrase, LoweredTranscription)
    /\ ~HasThanks
    /\ DirectMatches(LoweredTranscription) = {}
    /\ AliasMatches(LoweredTranscription) = {}

\* C5 as stated: every non-empty text without stop phrase, thanks phrase,
\* registered key and alias reaches the conversational responder and
\* process_command returns "continue".
C5_Original ==
    (Dispatched /\ Unregistered) => (chat_queries # <<>> /\ command_result = "continue")

\* C5, amended: every such text that contains the wake word "jarvis" reaches
\* respond_async, with the trimmed text after the first "jarvis", and
\* process_command returns "continue" without raising and without a handler.
C5_UnregisteredAfterWakeWord ==
    (Dispatched /\ Unregistered /\ Contains(wake_word, LoweredTranscription)) =>
        /\ chat_queries = <<TextAfterWakeWord>>
        /\ executed = <<>>
        /\ command_result = "continue"

\* "Jarvis hello" went to the responder
C5_Witness ==
    /\ Dispatched
    /\ Unregistered
    /\ chat_queries = << <<"h","e","l","l","o">> >>
    /\ command_result = "continue"

\* C6 as stated: when a transcription that starts with the wake word matches a
\* registered key, the execute of that key's handler is invoked exactly once,
\* with the trimmed lower-cased text after the first "jarvis", and
\* process_command returns "continue".
C6_Original ==
    (/\ Dispatched
     /\ Len(LoweredTranscription) >= Len(wake_word)
     /\ SubSeq(LoweredTranscription, 1, Len(wake_word)) = wake_word
     /\ ~Contains(StopPhrase, LoweredTranscription)
     /\ ~HasThanks
     /\ DirectMatches(TextAfterWakeWord) # {}) =>
        /\ Len(executed) = 1
        /\ executed[1].key = commands[SetMin(DirectMatches(TextAfterWakeWord))].key
        /\ executed[1].text = TextAfterWakeWord
        /\ command_result = "continue"

\* C7: whatever a selected handler's execute raises, before or inside its own
\* try block, and also when the handler has no execute at all, process_command
\* returns "continue": no exception leaves it.
C7_HandlerErrorsContained ==
    (Dispatched /\ selected # <<>> /\ selected[1].handler # "None") =>
        command_result = "continue"

\* OpenCommand reached through the alias "launch": its split on "open" raised
\* before its try block, and process_command answered with its own apology
C7_Witness ==
    /\ Dispatched
    /\ selected # <<>>
    /\ selected[1].handler = "OpenCommand"
    /\ ~Contains(<<"o","p","e","n">>, TextAfterWakeWord)
    /\ executed # <<>>
    /\ spoken = <<Say("I encountered an error processing your command.", <<>>)>>
    /\ command_result = "continue"

\* C8: a respond_async call whose text is a key of the cache when the call
\* begins returns the reply stored then, invokes generate_content not at all
\* and does not acquire the lock.
C8_CacheHitSkipsResponder ==
    \A c \in Callers :
        callers[c].hit =>
            /\ callers[c].pc = "returned"
            /\ callers[c].reply = Say("", callers[c].expect)
            /\ ~callers[c].invoked
            /\ ~callers[c].acquired

\* a hit answered while another coroutine holds the lock and generates
C8_Witness ==
    \E c, d \in Callers :
        /\ callers[c].hit
        /\ callers[c].pc = "returned"
        /\ callers[d].pc = "generating"
        /\ stores >= 2

\* C9: every key that was stored and is no longer in the cache was inserted
\* before every key that is in it (the evicted entry is always the one inserted
\* earliest, whatever was hit since); and after CacheLimit + 1 stores of
\* distinct texts the first text is absent and the others are present.
C9_FifoEviction ==
    /\ \A t \in DOMAIN births : \A u \in CacheKeys(response_cache) :
          t \notin CacheKeys(response_cache) => births[t] < births[u]
    /\ (stores = CacheLimit + 1 /\ Cardinality(DOMAIN births) = CacheLimit + 1) =>
          CacheKeys(response_cache) = {t \in DOMAIN births : births[t] >= 2}

\* CacheLimit + 1 distinct texts were stored and the first one is gone
C9_Witness ==
    /\ stores = CacheLimit + 1
    /\ Cardinality(DOMAIN births) = CacheLimit + 1
    /\ Len(response_cache) = CacheLimit
    /\ \E t \in DOMAIN births : births[t] = 1 /\ t \notin CacheKeys(response_cache)

\* C10: at most one generate_content call is in flight at any time; a caller
\* that missed the cache while another generates is queued on the lock.
C10_OneGenerationInFlight ==
    /\ Cardinality({c \in Callers : callers[c].pc = "generating"}) <= 1
    /\ \A c \in Callers :
          callers[c].pc = "generating" => (locked /\ callers[c].acquired)

\* one coroutine generates while another, which missed the cache, waits
C10_Witness ==
    \E c, d \in Callers :
        /\ callers[c].pc = "generating"
        /\ callers[d].pc = "waiting"
        /\ lock_waiters = <<d>>

\* C11: when generate_content or _extract_reply raises for a text, the cache is
\* left as it was (no entry added, none changed), and a respond_async for the
\* text of a failed call that is still no key of the cache goes to the
\* responder again (it takes or queues for the lock) instead of returning.
C11_FailureNotCached ==
    [][\A c \in Callers :
          /\ (callers[c].pc = "generating" /\ callers'[c].pc = "raised")
                 => response_cache' = response_cache
          /\ \A d \in Callers :
                 ( /\ calls' = calls + 1
                   /\ callers'[c] # callers[c]
                   /\ callers[d].pc = "raised"
                   /\ callers'[c].text = callers[d].text
                   /\ callers[d].text \notin CacheKeys(response_cache) )
                 => callers'[c].pc \in {"generating", "waiting"}]_vars

\* a call failed for a text, the text is no key of the cache, and another call
\* for the same text has invoked the responder
C11_Witness ==
    \E c, d \in Callers :
        /\ c # d
        /\ callers[d].pc = "raised"
        /\ callers[c].pc = "generating" /\ callers[c].invoked
        /\ callers[c].text = callers[d].text
        /\ callers[c].text \notin CacheKeys(response_cache)

\* C12: when the responder raises, respond_async does not raise: it returns
\* "I apologize, but I encountered an error processing your request.".
C12_Original == \A c \in Callers : callers[c].pc # "raised"

\* C13: when every device-open attempt fails, record makes exactly 3 open
\* attempts, reads no frame and returns None; it does not raise.
C13_Original ==
    (rec_pc = "done" /\ stream = "None") =>
        /\ open_attempts = 3
        /\ reads = 0
        /\ rec_result = "None"

\* C14: a record of record_seconds seconds at rate 16000 and chunk 1024
\* collects at most ceil(16000 * record_seconds / 1024) frames, and fewer
\* only when a read failed (2 seconds: exactly 32 frames when no read fails).
C14_Original ==
    LET ceiling == (16000 * record_seconds + 1023) \div 1024
    IN /\ Len(frames) <= ceiling
       /\ (rec_pc = "done" /\ rec_result \in {"file", "None", "raise"} /\ stream # "None")
             => (Len(frames) < ceiling => Len(frames) < reads)

\* C14 as amended: the frames collected never hold more than record_seconds
\* seconds of samples (at most floor(16000 * record_seconds / 1024) frames),
\* and a record that went through its frame loop without a failed read holds
\* so many that one more frame would exceed record_seconds seconds (exactly
\* the floor: 31 frames for 2 seconds).
C14_FloorOfFrames ==
    /\ Len(frames) * chunk <= rate * record_seconds
    /\ stream \notin {"unset", "None"} => Len(frames) <= reads
    /\ (rec_pc = "done" /\ rec_result \in {"file", "None", "raise"} /\ stream # "None"
          /\ Len(frames) = reads)
         => (Len(frames) + 1) * chunk > rate * record_seconds

\* a record of 2 seconds ended with every read successful: 31 frames
C14_Witness ==
    /\ rec_pc = "done"
    /\ record_seconds = 2
    /\ rec_result = "file"
    /\ reads = 31
    /\ Len(frames) = 31

\* C15: every stream record opens is stopped and closed by the time record
\* returns or raises, on every exit path; when no stream could be opened
\* neither stop nor close is attempted.
C15_Original ==
    rec_pc = "done" =>
        IF stream \in {"unset", "None"}
        THEN stop_calls = 0 /\ close_calls = 0
        ELSE stream = "closed" /\ stop_calls = 1 /\ close_calls = 1

\* C16: listen_for_wake_word never raises to its caller: when reading the
\* stream, decoding the frame or parsing the result raises, and also when
\* re-opening the stream afterwards raises, the call returns False.
C16_PollNeverRaises ==
    /\ wake_result \in {"none", "true", "false"}
    /\ (wake_frame # NoFrame /\ PollRaises(wake_frame)) => wake_result = "false"

\* a call whose decoding raised and whose re-opening of the stream raised too
C16_Witness ==
    /\ wake_frame.read = "ok" /\ wake_frame.decode = "raise"
    /\ wake_reopened = "reopen failed"
    /\ wake_result = "false"

\* C17: on every way out of the loop of run_assistant (stop phrase, keyboard
\* interrupt, an exception leaving the loop) wake_detector.cleanup is
\* performed exactly once.
C17_Original == loop_pc \in {"Stopped", "Raised"} => wake_cleanups = 1

\* C18: the Recorder's audio subsystem is released (self.audio.terminate)
\* exactly once, at the shutdown of run_assistant: not between iterations,
\* not more than once, however many capture cycles ran.
C18_Original ==
    /\ loop_pc \in InLoop => recorder_terminates = 0
    /\ loop_pc \in {"Stopped", "Raised"} => recorder_terminates = 1

\* C19: without an interrupt the loop is left only by the break after
\* process_command returned "stop" for a transcription containing "stop
\* listening": no other result, null capture, empty transcription or caught
\* exception ends it; and once the loop is left there is no further poll,
\* capture, transcription or dispatch.
C19_StopOnlyByStopPhrase ==
    /\ [](loop_pc = "Stopped" /\ loop_exit # "KeyboardInterrupt"
            => /\ loop_exit = "stop"
               /\ command_result = "stop"
               /\ Contains(StopPhrase, Lower(transcription)))
    /\ [][(loop_pc \in InLoop /\ loop_pc' \notin InLoop
             /\ loop_exit' \notin {"KeyboardInterrupt", "CancelledError"})
            => /\ loop_pc = "Routing"
               /\ loop_exit' = "stop"
               /\ command_result' = "stop"
               /\ Contains(StopPhrase, Lower(transcription))]_vars
    /\ [][loop_pc \notin InLoop
            => /\ loop_pc' \notin InLoop
               /\ polls' = polls /\ captures' = captures /\ dispatches' = dispatches
               /\ transcription' = transcription /\ frame_counter' = frame_counter]_vars

\* the loop went on after a raising capture and a second capture, and was
\* then stopped by the stop phrase
C19_Witness ==
    /\ loop_pc = "Stopped"
    /\ loop_exit = "stop"
    /\ caught >= 1
    /\ captures >= 2
    /\ dispatches >= 1

\* C20: an exception raised inside one iteration (record raising is the one
\* the collaborators let out) is caught by the except clause of that
\* iteration, and the loop goes back to listening; the loop is never left
\* because of it.
C20_IterationErrorsCaught ==
    /\ [](loop_exit \in {"none", "stop", "KeyboardInterrupt", "CancelledError"})
    /\ [][(loop_pc = "Capturing" /\ captures' = captures + 1 /\ rec_result' = "raise")
            => /\ loop_pc' = "Pausing"
               /\ caught' = caught + 1
               /\ loop_exit' = "none"]_vars
    /\ [][(loop_pc = "Pausing" /\ loop_pc' # "Pausing" /\ loop_exit' = "none")
            => loop_pc' = "Listening"]_vars

\* after a caught exception the loop polled again and detected the wake word
C20_Witness ==
    /\ caught >= 1
    /\ rec_result = "raise"
    /\ loop_pc = "Detected"
    /\ polls >= 2

\* C23: for a transcription with a thanks phrase ("thanks", "thank you") and
\* no stop phrase, process_command says "You're welcome!" once and returns
\* "continue" without matching keys or aliases: no handler is selected or
\* executed and the responder is not called, also when the text holds the
\* wake word and a registered key.
C23_ThanksBeforeMatching ==
    (Dispatched /\ HasThanks /\ ~Contains(StopPhrase, LoweredTranscription)) =>
        /\ command_result = "continue"
        /\ spoken = <<Say("You're welcome!", <<>>)>>
        /\ selected = <<>>
        /\ executed = <<>>
        /\ chat_queries = <<>>

\* "Jarvis open thanks" was answered with the thanks reply
C23_Witness ==
    /\ Dispatched
    /\ heard = << <<"J","a","r","v","i","s">>, <<"o","p","e","n">>, <<"t","h","a","n","k","s">> >>
    /\ spoken = <<Say("You're welcome!", <<>>)>>
    /\ command_result = "continue"

\* C24: when several registered direct keys occur in the command text,
\* _get_command selects the one registered first, wherever the keys occur in
\* the text and however long they are.
C24_FirstRegisteredKeyWins ==
    (Dispatched /\ selected # <<>>) =>
        \A i, j \in 1..Len(commands) :
            ( /\ i < j
              /\ Contains(commands[i].key, TextAfterWakeWord)
              /\ Contains(commands[j].key, TextAfterWakeWord) )
            => /\ selected[1].key # commands[j].key
               /\ \E k \in 1..i : selected[1] = commands[k]

\* "play" comes before "open" in the text and "notepad" holds the longer text
\* around "note"; "open", registered first, was selected
C24_Witness ==
    /\ Dispatched
    /\ heard = << <<"J","a","r","v","i","s">>, <<"p","l","a","y">>, <<"o","p","e","n">> >>
    /\ selected = <<commands[1]>>
    /\ selected[1].handler = "OpenCommand"

\* C25: whenever the execution of a matched handler raises, the apology that
\* is spoken is the one of that handler's family ("Sorry, I couldn't open
\* ..." for open, "Sorry, I couldn't play ..." for play), also when the
\* handler was reached through an alias whose text lacks the handler's key:
\* the general apology of process_command is never spoken for a handler that
\* was matched and executed.
C25_Original ==
    (Dispatched /\ executed # <<>>) =>
        \A i \in 1..Len(spoken) :
            spoken[i] # Say("I encountered an error processing your command.", <<>>)

\* C26: every key of the registry maps to a handler that provides
\* execute(context), so dispatching a registered key or alias invokes that
\* handler's execute and gives "continue" or "stop", never a failure for a
\* missing capability.
C26_Original ==
    (Dispatched /\ selected # <<>> /\ DirectMatches(TextAfterWakeWord) # {}) =>
        /\ HasExecute(selected[1].handler)
        /\ executed # <<>>
        /\ executed[1].handler = selected[1].handler

\* C28: a trigger suppressed by the cooldown (a finalized text with the wake
\* word, heard no later than detection_cooldown after the last True) is
\* answered False and leaves last_detection_time as it was, so it does not
\* extend the cooldown; nothing of it is kept, so a later True is always for
\* a finalized text of its own call that contains the wake word.
C28_SuppressedTriggerLeavesNoTrace ==
    /\ [][( /\ frame_counter' = frame_counter + 1
            /\ wake_frame'.decode = "final" /\ wake_frame'.result = "text"
            /\ Contains(wake_word, Lower(wake_frame'.text))
            /\ wake_clock - last_detection_time <= detection_cooldown )
          => /\ wake_result' = "false"
             /\ last_detection_time' = last_detection_time
             /\ true_times' = true_times]_vars
    /\ [][(frame_counter' = frame_counter + 1 /\ wake_result' = "true")
          => /\ wake_frame'.decode = "final" /\ wake_frame'.result = "text"
             /\ Contains(wake_word, Lower(wake_frame'.text))
             /\ wake_clock - last_detection_time > detection_cooldown]_vars
    /\ [](true_times # <<>> => last_detection_time = true_times[Len(true_times)])

\* after a detection a trigger was suppressed, and a later call, once the
\* cooldown counted from the detection (not from the suppressed trigger) had
\* elapsed, returned True
C28_Witness ==
    /\ Len(true_times) = 2
    /\ wake_result = "true"
    /\ frame_counter >= 3
    /\ true_times[2] - true_times[1] = detection_cooldown + 1

C30_FailedReadSkipped ==
    /\ failed_reads \subseteq 1..reads
    /\ stream \notin {"unset", "None"} =>
          /\ Len(frames) = reads - Cardinality(failed_reads)
          /\ \A i \in 1..Len(frames) : frames[i].read \in (1..reads) \ failed_reads
          /\ \A i \in 1..(Len(frames) - 1) : frames[i].read < frames[i + 1].read
    /\ (rec_pc = "done" /\ rec_result = "file") =>
          /\ (reads + 1) * chunk > rate * record_seconds
          /\ saved.exists
          /\ saved.data = frames

\* a record whose second read failed went on to its last read and wrote
\* the frames of the other reads
C30_Witness ==
    /\ rec_pc = "done"
    /\ rec_result = "file"
    /\ failed_reads = {2}
    /\ record_seconds = 1
    /\ Len(saved.data) = 14
    /\ saved.data[1].read = 1
    /\ \A i \in 2..14 : saved.data[i].read = i + 1

\* C21: the selection returns the default input device when its probe
\* passes, and otherwise the lowest-index device with an input channel that
\* passes the probe; a probe passes exactly when the device opens and the
\* read of one frame gives non-empty data, whatever the level.
C21_Original ==
    LET passes(i) == devices[i].open /\ devices[i].read = "data"
        candidates == {i \in DOMAIN devices :
                          devices[i].info /\ devices[i].maxInputChannels > 0 /\ passes(i)}
    IN dev_pc \in {"returned", "done"} =>
          IF default_device # NoDevice /\ passes(default_device)
          THEN input_device_index = default_device
          ELSE candidates # {} => input_device_index = SetMin(candidates)

\* C21 as amended: as C21, with a probe passing exactly when the device
\* opens, the read of one frame gives non-empty data and the stream of the
\* probe is stopped and closed without an error, whatever the level.
C21_ProbeNeedsCleanTeardown ==
    LET passes(i) == devices[i].open /\ devices[i].read = "data" /\ devices[i].teardown
        candidates == {i \in DOMAIN devices :
                          devices[i].info /\ devices[i].maxInputChannels > 0 /\ passes(i)}
    IN dev_pc \in {"returned", "done"} =>
          IF default_device # NoDevice /\ passes(default_device)
          THEN input_device_index = default_device
          ELSE candidates # {} => input_device_index = SetMin(candidates)

\* the default device did not pass, and the selection returned a device
\* after it whose data were silent
C21_Witness ==
    /\ dev_pc = "returned"
    /\ default_device = 0
    /\ input_device_index = 1
    /\ devices[1].level = "silent"
    /\ devices[0].open /\ devices[0].read = "data"

\* C22: when no input device passes the probe the selection gives None after
\* a bounded number of probes of each device (the default device twice at
\* most, any other once at most), Recorder.__init__ raises, and main ends
\* without calling run_assistant.
C22_NoDeviceAbortsStartup ==
    LET passes(i) == /\ devices[i].info /\ devices[i].maxInputChannels > 0
                     /\ devices[i].open /\ devices[i].read = "data" /\ devices[i].teardown
    IN /\ \A i \in DOMAIN devices : probes[i] <= IF i = default_device THEN 2 ELSE 1
       /\ (\A i \in DOMAIN devices : ~passes(i)) =>
             /\ startup # "run_assistant"
             /\ dev_pc \in {"returned", "done"} => input_device_index = NoDevice
             /\ dev_pc = "done" => startup \in {"AttributeError", "exit 1"}

\* two devices, none passing, the default one probed twice, and main ended
C22_Witness ==
    /\ dev_pc = "done"
    /\ Cardinality(DOMAIN devices) = 2
    /\ default_device = 1
    /\ probes[1] = 2 /\ probes[0] = 1
    /\ input_device_index = NoDevice
    /\ startup \in {"AttributeError", "exit 1"}

C38_NothingWithoutWakeWord ==
    Dispatched =>
        /\ (executed # <<>> \/ chat_queries # <<>> \/ selected # <<>>)
              => Contains(wake_word, LoweredTranscription)
        /\ ( /\ ~Contains(wake_word, LoweredTranscription)
             /\ ~Contains(StopPhrase, LoweredTranscription)
             /\ ~HasThanks )
              => /\ command_result = "continue"
                 /\ executed = <<>> /\ chat_queries = <<>> /\ selected = <<>>
                 /\ spoken = <<>>
        /\ executed # <<>> =>
              /\ executed[1].text = TextAfterWakeWord
              /\ \/ Contains(executed[1].key, TextAfterWakeWord)
                 \/ \E i \in AliasMatches(TextAfterWakeWord) :
                        command_aliases[i].target = executed[1].key
        /\ chat_queries # <<>> =>
              /\ chat_queries[1] = TextAfterWakeWord
              /\ DirectMatches(TextAfterWakeWord) = {}

\* "open Jarvis hello": the key before the wake word is not matched, the
\* text after it goes to the chatbot
C38_Witness ==
    /\ Dispatched
    /\ transcription = <<"o","p","e","n"," ","J","a","r","v","i","s"," ","h","e","l","l","o">>
    /\ executed = <<>>
    /\ chat_queries = << <<"h","e","l","l","o">> >>

\* C34: in every state reached by respond_async calls in any interleaving,
\* seen when no call is inside the lock, the cache holds at most CacheLimit
\* entries (1000 in the source).
C34_CacheBounded == ~locked => Len(response_cache) <= CacheLimit

\* more texts than the limit were stored, the lock is free and the cache is
\* full
C34_Witness ==
    /\ ~locked
    /\ Cardinality(DOMAIN births) > CacheLimit
    /\ Len(response_cache) = CacheLimit

C36_LogCapped ==
    /\ Len(error_log) <= 100
    /\ Len(error_log) = IF errors_logged <= 100 THEN errors_logged ELSE 100
    /\ \A i \in 1..Len(error_log) : error_log[i] = errors_logged - Len(error_log) + i

\* more calls than the cap: the log holds the last 100 entries
C36_Witness ==
    /\ errors_logged = 102
    /\ Len(error_log) = 100
    /\ error_log[1] = 3
    /\ error_log[100] = 102

\* C40 (its safety part): in any interleaving of add_reminder and set_timer
\* with the checker thread, the thread keeps running, no text or label is
\* announced more than once, and no entry is deleted before its time.
C40_Original ==
    /\ checker.pc # "dead"
    /\ \A l \in DOMAIN announced : announced[l] <= 1
    /\ removed_early = {}

\* C35: device open in a record stops at the first successful attempt: while
\* attempts are still made none has succeeded, the attempt that succeeds is
\* the last one (k attempts when the k-th is the first success, 1 <= k <= 3),
\* its stream is the one record reads from, and between attempts nothing
\* else happens (no wait: every step taken while opening is an attempt).
C35_StopsAtFirstSuccess ==
    /\ [](open_attempts \in 0..3)
    /\ [](rec_pc = "opening" => stream = "unset")
    /\ [](rec_pc = "reading" => stream = "open" /\ open_attempts \in 1..3)
    /\ [][rec_pc = "opening" => open_attempts' = open_attempts + 1]_vars
    /\ [][(rec_pc = "opening" /\ stream' = "open")
          => rec_pc' = "reading" /\ UNCHANGED <<reads, stop_calls, close_calls>>]_vars
    /\ [][rec_pc # "opening" /\ rec_pc' # "opening" => open_attempts' = open_attempts]_vars

\* the first attempt failed and the second succeeded: two attempts, and
\* record reads from the stream of the second
C35_Witness ==
    /\ rec_pc = "reading"
    /\ open_attempts = 2
    /\ stream = "open"
    /\ reads = 1

\* C33: every record that succeeds returns the one path audio/recording.wav,
\* and the file the k-th record wrote holds only frames read during the k-th
\* record, also when an earlier record collected frames and failed.
C33_OnlyFramesOfThisRecord ==
    /\ rec_result \in {"none", "file", "None", "raise", "interrupt"}
    /\ stream \notin {"unset", "None"} => \A i \in 1..Len(frames) : frames[i].rec = records
    /\ (rec_pc = "done" /\ rec_result = "file") =>
          /\ saved.exists
          /\ saved.data = frames
          /\ \A i \in 1..Len(saved.data) : saved.data[i].rec = records

\* the second record wrote the file, with frames of its own
C33_Witness ==
    /\ rec_pc = "done"
    /\ records = 2
    /\ rec_result = "file"
    /\ saved.exists
    /\ Len(saved.data) = 15
    /\ \A i \in 1..15 : saved.data[i] = [rec |-> 2, read |-> i]

\* C31: a capture whose level never reaches min_audio_level is only flagged:
\* when _save_audio wrote its frames record returns the path and the loop
\* goes on to transcribe_audio, and when the transcription is not empty, to
\* process_command.
C31_SilentCaptureKept ==
    /\ [][( /\ captures' = captures + 1
            /\ stream' = "closed"
            /\ max_level' = "below"
            /\ saved'.exists /\ saved'.data = frames' )
          => rec_result' = "file" /\ loop_pc' = "Transcribing"]_vars
    /\ [][( /\ loop_pc = "Transcribing"
            /\ max_level = "below"
            /\ loop_pc' # "Exiting"
            /\ transcription' # <<>> )
          => loop_pc' = "Routing"]_vars

\* a silent capture was saved, transcribed and is about to be routed
C31_Witness ==
    /\ loop_pc = "Routing"
    /\ max_level = "below"
    /\ rec_result = "file"
    /\ saved.exists /\ saved.data = frames
    /\ transcription # <<>>

\* C32: in every iteration process_command is called only after, in this
\* order, listen_for_wake_word returned True, record returned a path and
\* transcribe_audio returned a text that is not empty; a None from record
\* skips transcription and routing, an empty transcription skips routing,
\* and both take the loop back to listening.
C32_RouterAfterWakeCaptureText ==
    /\ [][(loop_pc' = "Detected" /\ loop_pc # "Detected")
          => loop_pc = "Listening" /\ wake_result' = "true"]_vars
    /\ [][(loop_pc' = "Capturing" /\ loop_pc # "Capturing")
          => loop_pc = "Detected" /\ wake_result = "true"]_vars
    /\ [][captures' # captures => loop_pc = "Capturing" /\ wake_result = "true"]_vars
    /\ [][(loop_pc' = "Transcribing" /\ loop_pc # "Transcribing")
          => loop_pc = "Capturing" /\ captures' = captures + 1 /\ rec_result' = "file"]_vars
    /\ [][(loop_pc' = "Routing" /\ loop_pc # "Routing")
          => /\ loop_pc = "Transcribing"
             /\ wake_result = "true" /\ rec_result = "file"
             /\ transcription' # <<>>]_vars
    /\ [][dispatches' # dispatches
          => /\ loop_pc = "Routing"
             /\ wake_result = "true" /\ rec_result = "file" /\ transcription # <<>>]_vars
    /\ [][(captures' = captures + 1 /\ rec_result' = "None")
          => loop_pc' = "Listening" /\ dispatches' = dispatches]_vars
    /\ [][(loop_pc = "Transcribing" /\ loop_pc' # "Exiting" /\ transcription' = <<>>)
          => loop_pc' = "Listening" /\ dispatches' = dispatches]_vars

\* a first iteration was skipped (nothing dispatched after its capture), and
\* the second one is about to call the router
C32_Witness ==
    /\ loop_pc = "Routing"
    /\ captures = 2
    /\ caught = 0
    /\ dispatches = 0
    /\ wake_result = "true"
    /\ rec_result = "file"
    /\ transcription # <<>>

====
